---- MODULE Spec2Model ----
(***************************************************************************)
(* Model of the mover service (src/common/mover): the binary wire codec of *)
(* protocol.rs, the configuration of config.rs, the buffer pool of         *)
(* iouring.rs and the startup and connection handling of main.rs.  Each    *)
(* part has its own specification; the variables of the other parts stay   *)
(* at their idle values.                                                   *)
(*                                                                         *)
(* Byte strings (Vec<u8>, &[u8]) are sequences of integers 0..255.         *)
(* Option<T> is a sequence of length 0 (None) or 1 (Some).                 *)
(* io::Result<T> is a record [ok |-> TRUE, value |-> v] or                 *)
(* [ok |-> FALSE, err |-> kind].                                           *)
(* TLC's integers end at 2^31 - 1, so every usize/u32 value of the model   *)
(* is below 2^31; the u16 width of the identifier length is kept exactly.  *)
(***************************************************************************)
EXTENDS Integers, Sequences, FiniteSets, TLC

VARIABLES
    req,        \* Option<MoverRequest>: the request handed to write_to
    resp,       \* Option<MoverResponse>: the response handed to write_to
    buffer,     \* Vec<u8>: the writer write_to fills, then the reader's bytes
    wres,       \* Option<io::Result<()>>: what write_to returned
    cut,        \* TRUE once the byte stream has been cut short of the frame
    decoded,    \* Option<[by, result]>: which read_from ran and its io::Result
    pc,         \* position of the codec exercise: "new", "written", "read"
    config,     \* Option<MoverConfig>: the configuration handed to validate
    validated,  \* Option<Result<MoverConfig>>: what validate returned
    env,        \* the process environment: variable name -> Option<String>
    flags_result, \* Option<Result<u32>>: what parse_iouring_flags returned
    main,       \* main(): its position, its configuration, what it has done
    pool,       \* the BufferPool: buffers and available
    trace,      \* the acquire and release calls made on the pool, in order
    last,       \* Option: the latest call made on the pool and its result
    owned,      \* task -> the buffer indices it has acquired and not released
    conn,       \* handle_connection: its position, its locals, the stream
    load_result, \* Option: what load_from_env returned
    batch,      \* batch_read: its reads, its spawned tasks, what it returned
    conns       \* the connection tasks main has spawned, in accept order

codecVars == <<req, resp, buffer, wres, cut, decoded, pc>>
configVars == <<config, validated>>
flagVars == <<env, flags_result>>
poolVars == <<pool, trace, last, owned>>
vars == <<req, resp, buffer, wres, cut, decoded, pc, config, validated,
          env, flags_result, main, pool, trace, last, owned, conn,
          load_result, batch, conns>>

None == <<>>
Some(v) == <<v>>
Ok(v) == [ok |-> TRUE, value |-> v]
Err(kind) == [ok |-> FALSE, err |-> kind]

\* The environment variables the service reads.
EnvKeys ==
    {"MOVER_SOCKET", "DATABASE_URL", "IOURING_ENTRIES", "IOURING_FLAGS",
     "MOVER_BUFFER_COUNT", "MOVER_BUFFER_SIZE", "MOVER_BATCH_TIMEOUT_MS",
     "MOVER_MAX_CONNECTIONS", "MOVER_ENABLE_HUGE_PAGES", "MOVER_ENABLE_SEND_ZC"}

\* No variable is set.
EmptyEnv == [k \in EnvKeys |-> None]

\* The idle values of each part's variables.
CodecIdle ==
    /\ req = None /\ resp = None /\ buffer = <<>> /\ wres = None
    /\ cut = FALSE /\ decoded = None /\ pc = "idle"
ConfigIdle == config = None /\ validated = None
FlagsIdle == flags_result = None
MainIdle == main = [pc |-> "idle"]
PoolIdle ==
    /\ pool = [buffers |-> <<>>, available |-> <<>>]
    /\ trace = <<>> /\ last = None /\ owned = <<>>
ConnIdle == conn = [state |-> "idle"]
LoadIdle == load_result = None
BatchIdle == batch = [pc |-> "idle"]
ServerIdle == conns = <<>>
RestIdle == LoadIdle /\ BatchIdle /\ ServerIdle

(***************************************************************************)
(* Bounds of the model.                                                    *)
(***************************************************************************)
MaxIdLen == 2        \* longest identifier of the enumerated requests
MaxDataLen == 2      \* longest payload of the enumerated messages
MaxOverflow == 1     \* how far past u16::MAX the long identifiers go
MaxCut == 30         \* cut points are within MaxCut bytes of either end
MaxRawLen == 2       \* longest arbitrary tail of a raw byte stream

\* Every sequence over S of length at most n.
SeqsUpTo(S, n) == UNION {[1..k -> S] : k \in 0..n}

(***************************************************************************)
(* protocol.rs: primitive byte encoding                                    *)
(***************************************************************************)
U16_MAX == 65535

\* uN::to_le_bytes for a value already of the width: `width` bytes, least
\* significant first.
RECURSIVE to_le_bytes(_, _)
to_le_bytes(n, width) ==
    IF width = 0 THEN <<>>
    ELSE <<n % 256>> \o to_le_bytes(n \div 256, width - 1)

\* uN::from_le_bytes: the value of the bytes, least significant first.
RECURSIVE from_le_bytes(_)
from_le_bytes(bytes) ==
    IF bytes = <<>> THEN 0
    ELSE Head(bytes) + 256 * from_le_bytes(Tail(bytes))

\* `x as u16`: the cast keeps the low 16 bits.
as_u16(n) == n % (U16_MAX + 1)

\* `x as u32`: the cast keeps the low 4 bytes (every value of the model is
\* below 2^31, the width is carried by the byte count).
as_u32(n) == from_le_bytes(to_le_bytes(n, 4))

\* A slip: Read::read in place of read_exact, a short read leaves the rest
\* of the zeroed buffer as it was and reports success.
read_exact_short(reader, n) ==
    LET got == IF Len(reader) < n THEN Len(reader) ELSE n IN
    [ok |-> TRUE,
     value |-> SubSeq(reader, 1, got) \o [i \in 1..(n - got) |-> 0],
     rest |-> SubSeq(reader, got + 1, Len(reader))]

\* Read::read_exact on a byte slice: n bytes and the rest, or UnexpectedEof.
read_exact(reader, n) ==
    IF Len(reader) < n THEN Err("UnexpectedEof")
    ELSE [ok |-> TRUE,
          value |-> SubSeq(reader, 1, n),
          rest |-> SubSeq(reader, n + 1, Len(reader))]

(***************************************************************************)
(* protocol.rs: OpCode                                                     *)
(***************************************************************************)
OpCode == {"Read", "Write", "SendZC", "Recv", "Batch"}

\* A slip: the discriminants left to start at zero.
OpCode_as_u8_zero_based(op) ==
    CASE op = "Read" -> 0
      [] op = "Write" -> 1
      [] op = "SendZC" -> 2
      [] op = "Recv" -> 3
      [] op = "Batch" -> 4

\* `self.op as u8`
OpCode_as_u8(op) ==
    CASE op = "Read" -> 1
      [] op = "Write" -> 2
      [] op = "SendZC" -> 3
      [] op = "Recv" -> 4
      [] op = "Batch" -> 5

\* A slip: an unknown byte falls back to Read.
OpCode_try_from_defaulting(value) ==
    CASE value = 2 -> Ok("Write")
      [] value = 3 -> Ok("SendZC")
      [] value = 4 -> Ok("Recv")
      [] value = 5 -> Ok("Batch")
      [] OTHER -> Ok("Read")

\* impl TryFrom<u8> for OpCode
OpCode_try_from(value) ==
    CASE value = 1 -> Ok("Read")
      [] value = 2 -> Ok("Write")
      [] value = 3 -> Ok("SendZC")
      [] value = 4 -> Ok("Recv")
      [] value = 5 -> Ok("Batch")
      [] OTHER -> Err("InvalidData")

(***************************************************************************)
(* protocol.rs: MoverRequest                                               *)
(***************************************************************************)
\* A slip: length written before offset.
MoverRequest_write_to_swapped(self) ==
    <<OpCode_as_u8(self.op)>>
        \o to_le_bytes(as_u16(Len(self.id)), 2)
        \o self.id
        \o to_le_bytes(self.length, 8)
        \o to_le_bytes(self.offset, 8)
        \o to_le_bytes(as_u32(Len(self.data)), 4)
        \o self.data

\* MoverRequest::write_to into a Vec<u8>: the bytes written (write_all and
\* flush on a Vec never fail).
MoverRequest_write_to(self) ==
    <<OpCode_as_u8(self.op)>>
        \o to_le_bytes(as_u16(Len(self.id)), 2)
        \o self.id
        \o to_le_bytes(self.offset, 8)
        \o to_le_bytes(self.length, 8)
        \o to_le_bytes(as_u32(Len(self.data)), 4)
        \o self.data

\* MoverRequest::read_from
MoverRequest_read_from(reader) ==
    LET op_byte == read_exact(reader, 1) IN
    IF ~op_byte.ok THEN Err(op_byte.err) ELSE
    LET op == OpCode_try_from(op_byte.value[1]) IN
    IF ~op.ok THEN Err(op.err) ELSE
    LET id_len_bytes == read_exact(op_byte.rest, 2) IN
    IF ~id_len_bytes.ok THEN Err(id_len_bytes.err) ELSE
    LET id_len == from_le_bytes(id_len_bytes.value)
        id == read_exact(id_len_bytes.rest, id_len) IN
    IF ~id.ok THEN Err(id.err) ELSE
    LET offset_bytes == read_exact(id.rest, 8) IN
    IF ~offset_bytes.ok THEN Err(offset_bytes.err) ELSE
    LET len_bytes == read_exact(offset_bytes.rest, 8) IN
    IF ~len_bytes.ok THEN Err(len_bytes.err) ELSE
    LET data_len_bytes == read_exact(len_bytes.rest, 4) IN
    IF ~data_len_bytes.ok THEN Err(data_len_bytes.err) ELSE
    LET data_len == from_le_bytes(data_len_bytes.value)
        data == read_exact(data_len_bytes.rest, data_len) IN
    IF ~data.ok THEN Err(data.err) ELSE
    Ok([op |-> op.value,
        id |-> id.value,
        offset |-> from_le_bytes(offset_bytes.value),
        length |-> from_le_bytes(len_bytes.value),
        data |-> data.value])

(***************************************************************************)
(* protocol.rs: MoverResponse                                              *)
(***************************************************************************)
ResponseStatus == {"Ok", "NotFound", "Error"}

\* `self.status as u8`
ResponseStatus_as_u8(status) ==
    CASE status = "Ok" -> 0
      [] status = "NotFound" -> 1
      [] status = "Error" -> 2

\* MoverResponse::write_to into a Vec<u8>
MoverResponse_write_to(self) ==
    <<ResponseStatus_as_u8(self.status)>>
        \o to_le_bytes(as_u32(Len(self.data)), 4)
        \o self.data

\* A slip: the arms for 0x01 and 0x02 exchanged.
ResponseStatus_from_u8_exchanged(value) ==
    CASE value = 0 -> Ok("Ok")
      [] value = 1 -> Ok("Error")
      [] value = 2 -> Ok("NotFound")
      [] OTHER -> Err("InvalidData")

\* The match on the status byte in MoverResponse::read_from
ResponseStatus_from_u8(value) ==
    CASE value = 0 -> Ok("Ok")
      [] value = 1 -> Ok("NotFound")
      [] value = 2 -> Ok("Error")
      [] OTHER -> Err("InvalidData")

\* MoverResponse::read_from
MoverResponse_read_from(reader) ==
    LET status_byte == read_exact(reader, 1) IN
    IF ~status_byte.ok THEN Err(status_byte.err) ELSE
    LET status == ResponseStatus_from_u8(status_byte.value[1]) IN
    IF ~status.ok THEN Err(status.err) ELSE
    LET data_len_bytes == read_exact(status_byte.rest, 4) IN
    IF ~data_len_bytes.ok THEN Err(data_len_bytes.err) ELSE
    LET data_len == from_le_bytes(data_len_bytes.value)
        data == read_exact(data_len_bytes.rest, data_len) IN
    IF ~data.ok THEN Err(data.err) ELSE
    Ok([status |-> status.value, data |-> data.value])

(***************************************************************************)
(* The messages and byte streams the codec is exercised on.                *)
(***************************************************************************)
IdBytes == {97, 255}
DataBytes == {0, 200}
Offsets == {0, 2147483647}
Lengths == {0, 1024}
RawBytes == {0, 1, 127}

\* struct MoverRequest, identifiers and payloads up to the bounds
SmallRequests ==
    [op : OpCode,
     id : SeqsUpTo(IdBytes, MaxIdLen),
     offset : Offsets,
     length : Lengths,
     data : SeqsUpTo(DataBytes, MaxDataLen)]

\* struct MoverRequest, identifiers of u16::MAX bytes and longer
LongIdRequests ==
    {[op |-> "Read", id |-> [i \in 1..n |-> 0], offset |-> 0, length |-> 0,
      data |-> <<>>] : n \in U16_MAX..(U16_MAX + MaxOverflow)}

\* struct MoverResponse
Responses == [status : ResponseStatus, data : SeqsUpTo(DataBytes, MaxDataLen)]

\* Byte streams that no write_to produced: any first byte, then either a few
\* arbitrary bytes or what follows the first byte of a sample frame.
SampleFrames ==
    {MoverRequest_write_to([op |-> "Write", id |-> <<97>>, offset |-> 0,
                            length |-> 1024, data |-> d]) : d \in {<<>>, <<200>>}}
    \cup {MoverResponse_write_to([status |-> "Ok", data |-> d]) :
            d \in {<<>>, <<200>>}}

RawTails ==
    SeqsUpTo(RawBytes, MaxRawLen) \cup {Tail(f) : f \in SampleFrames}

(***************************************************************************)
(* The codec exercise: write a message, possibly cut the stream, read it.  *)
(***************************************************************************)
Init ==
    /\ \/ /\ \/ \E r \in SmallRequests : req = Some(r)
             \/ \E r \in LongIdRequests : req = Some(r)
          /\ resp = None
          /\ buffer = <<>>
          /\ pc = "new"
       \/ /\ req = None
          /\ \E r \in Responses : resp = Some(r)
          /\ buffer = <<>>
          /\ pc = "new"
       \/ /\ req = None
          /\ resp = None
          /\ \E b \in 0..255, t \in RawTails : buffer = <<b>> \o t
          /\ pc = "written"
    /\ wres = None
    /\ cut = FALSE
    /\ decoded = None
    /\ ConfigIdle
    /\ env = EmptyEnv /\ FlagsIdle /\ MainIdle /\ PoolIdle /\ ConnIdle
    /\ RestIdle

\* req.write_to(&mut buffer)
RequestWriteTo ==
    /\ pc = "new"
    /\ req # None
    /\ buffer' = MoverRequest_write_to(req[1])
    /\ wres' = Some(Ok(<<>>))
    /\ pc' = "written"
    /\ UNCHANGED <<req, resp, cut, decoded, configVars, flagVars, main, poolVars, conn, load_result, batch, conns>>

\* resp.write_to(&mut buffer)
ResponseWriteTo ==
    /\ pc = "new"
    /\ resp # None
    /\ buffer' = MoverResponse_write_to(resp[1])
    /\ wres' = Some(Ok(<<>>))
    /\ pc' = "written"
    /\ UNCHANGED <<req, resp, cut, decoded, configVars, flagVars, main, poolVars, conn, load_result, batch, conns>>

\* Where a written frame may be cut: a strict prefix, near either end.
CutPoints(frame) ==
    {n \in 0..(Len(frame) - 1) : n <= MaxCut \/ n >= Len(frame) - MaxCut}

\* The stream ends early: the reader gets only the first n bytes of the frame.
Truncate ==
    /\ pc = "written"
    /\ wres # None
    /\ ~cut
    /\ \E n \in CutPoints(buffer) : buffer' = SubSeq(buffer, 1, n)
    /\ cut' = TRUE
    /\ UNCHANGED <<req, resp, wres, decoded, pc, configVars, flagVars, main, poolVars, conn, load_result, batch, conns>>

\* MoverRequest::read_from(&mut cursor)
RequestReadFrom ==
    /\ pc = "written"
    /\ resp = None
    /\ decoded' = Some([by |-> "MoverRequest",
                        result |-> MoverRequest_read_from(buffer)])
    /\ pc' = "read"
    /\ UNCHANGED <<req, resp, buffer, wres, cut, configVars, flagVars, main, poolVars, conn, load_result, batch, conns>>

\* MoverResponse::read_from(&mut cursor)
ResponseReadFrom ==
    /\ pc = "written"
    /\ req = None
    /\ decoded' = Some([by |-> "MoverResponse",
                        result |-> MoverResponse_read_from(buffer)])
    /\ pc' = "read"
    /\ UNCHANGED <<req, resp, buffer, wres, cut, configVars, flagVars, main, poolVars, conn, load_result, batch, conns>>

Next ==
    \/ RequestWriteTo
    \/ ResponseWriteTo
    \/ Truncate
    \/ RequestReadFrom
    \/ ResponseReadFrom

Spec == Init /\ [][Next]_vars

(***************************************************************************)
(* config.rs: MoverConfig and its validation.  A String is a sequence of   *)
(* one-character strings.                                                  *)
(***************************************************************************)
MaxEntries == 16384       \* iouring_entries runs over 0..MaxEntries
MaxBufferSize == 12288    \* buffer_size runs over 0..MaxBufferSize
MaxBufferCount == 2000    \* buffer_count runs over 0..MaxBufferCount
MaxBatchTimeout == 1001   \* batch_timeout_ms runs over 0..MaxBatchTimeout

IORING_SETUP_CLAMP == 16

\* "/tmp/mover.sock"
DefaultSocketPath ==
    <<"/", "t", "m", "p", "/", "m", "o", "v", "e", "r", ".", "s", "o", "c", "k">>

\* MoverConfig::with_defaults
with_defaults ==
    [socket_path |-> DefaultSocketPath,
     db_url |-> "postgres://localhost/orchestrator",
     iouring_entries |-> 4096,
     iouring_flags |-> IORING_SETUP_CLAMP,
     buffer_count |-> 256,
     buffer_size |-> 4096,
     batch_timeout_ms |-> 10,
     max_connections |-> 32,
     enable_huge_pages |-> FALSE,
     enable_send_zc |-> TRUE]

\* A slip: evenness taken for being a power of two.
is_power_of_two_even(n) == n # 0 /\ n % 2 = 0

\* u32::is_power_of_two: exactly one bit set.
RECURSIVE is_power_of_two(_)
is_power_of_two(n) ==
    IF n <= 1 THEN n = 1
    ELSE n % 2 = 0 /\ is_power_of_two(n \div 2)

\* A slip: the path only has to contain the character.
starts_with_contains(s, ch) == \E i \in 1..Len(s) : s[i] = ch

\* str::starts_with(char)
starts_with(s, ch) == Len(s) > 0 /\ s[1] = ch

\* `self.iouring_entries < 256 || self.iouring_entries > 8192`
entries_out_of_range(self) ==
    self.iouring_entries < 256 \/ self.iouring_entries > 8192

\* A slip: the size only has to reach one page.
buffer_size_too_small(self) == self.buffer_size < 4096

\* `self.buffer_size % 4096 != 0`
buffer_size_unaligned(self) == self.buffer_size % 4096 # 0

\* A slip: the zero check left out.
buffer_count_above_range(self) == self.buffer_count > 1024

\* `self.buffer_count == 0 || self.buffer_count > 1024`
buffer_count_out_of_range(self) ==
    self.buffer_count = 0 \/ self.buffer_count > 1024

\* `self.batch_timeout_ms == 0 || self.batch_timeout_ms > 1000`
batch_timeout_out_of_range(self) ==
    self.batch_timeout_ms = 0 \/ self.batch_timeout_ms > 1000

\* MoverConfig::validate: the first failing check bails, else Ok(self).
MoverConfig_validate(self) ==
    IF ~is_power_of_two(self.iouring_entries)
        THEN Err("iouring_entries must be power of 2")
    ELSE IF entries_out_of_range(self)
        THEN Err("iouring_entries must be 256-8192")
    ELSE IF buffer_size_unaligned(self)
        THEN Err("buffer_size must be multiple of 4096")
    ELSE IF buffer_count_out_of_range(self)
        THEN Err("buffer_count must be 1-1024")
    ELSE IF batch_timeout_out_of_range(self)
        THEN Err("batch_timeout_ms must be 1-1000")
    ELSE IF ~starts_with(self.socket_path, "/")
        THEN Err("socket_path must be absolute")
    ELSE Ok(self)

\* The settings validate is exercised on: every combination of a few values
\* of each checked field, and each checked field alone over a whole range.
EntriesSamples ==
    {0, 1, 128, 255, 256, 257, 512, 1000, 1024, 2048, 4096, 8192, 8193, 16384}
BufferSizeSamples == {0, 3000, 4095, 4096, 4097, 8192}
BufferCountSamples == {0, 1, 256, 1024, 1025, 2000}
BatchTimeoutSamples == {0, 1, 10, 1000, 1001}
SocketPathSamples ==
    {<<>>,
     <<"r", "e", "l", "a", "t", "i", "v", "e", "/", "p", "a", "t", "h">>,
     <<"/">>,
     DefaultSocketPath}

\* with_defaults with the checked fields set, as the tests set them.
ConfigWith(e, s, c, t, p) ==
    [with_defaults EXCEPT !.iouring_entries = e, !.buffer_size = s,
                          !.buffer_count = c, !.batch_timeout_ms = t,
                          !.socket_path = p]

ConfigInit ==
    /\ \/ \E e \in EntriesSamples, s \in BufferSizeSamples,
             c \in BufferCountSamples, t \in BatchTimeoutSamples,
             p \in SocketPathSamples :
                config = Some(ConfigWith(e, s, c, t, p))
       \/ \E e \in 0..MaxEntries :
             config = Some([with_defaults EXCEPT !.iouring_entries = e])
       \/ \E s \in 0..MaxBufferSize :
             config = Some([with_defaults EXCEPT !.buffer_size = s])
       \/ \E c \in 0..MaxBufferCount :
             config = Some([with_defaults EXCEPT !.buffer_count = c])
       \/ \E t \in 0..MaxBatchTimeout :
             config = Some([with_defaults EXCEPT !.batch_timeout_ms = t])
    /\ validated = None
    /\ CodecIdle
    /\ env = EmptyEnv /\ FlagsIdle /\ MainIdle /\ PoolIdle /\ ConnIdle
    /\ RestIdle

\* config.validate()
Validate ==
    /\ config # None
    /\ validated = None
    /\ validated' = Some(MoverConfig_validate(config[1]))
    /\ UNCHANGED <<config, codecVars, flagVars, main, poolVars, conn, load_result, batch, conns>>

ConfigNext == Validate

SpecConfig == ConfigInit /\ [][ConfigNext]_vars

(***************************************************************************)
(* config.rs: parse_iouring_flags.  The setting is read character by       *)
(* character; a String is a sequence of one-character strings.             *)
(***************************************************************************)
MaxSegments == 2     \* most comma-separated segments of an enumerated setting

IORING_SETUP_IOPOLL == 1
IORING_SETUP_SQPOLL == 2
IORING_SETUP_SQ_AFF == 4
IORING_SETUP_CQSIZE == 8
IORING_SETUP_ATTACH_WQ == 32

DigitChars == <<"0", "1", "2", "3", "4", "5", "6", "7", "8", "9">>
UpperChars ==
    <<"A", "B", "C", "D", "E", "F", "G", "H", "I", "J", "K", "L", "M",
      "N", "O", "P", "Q", "R", "S", "T", "U", "V", "W", "X", "Y", "Z">>
LowerChars ==
    <<"a", "b", "c", "d", "e", "f", "g", "h", "i", "j", "k", "l", "m",
      "n", "o", "p", "q", "r", "s", "t", "u", "v", "w", "x", "y", "z">>
WhiteSpace == {" ", "\t", "\n"}

\* u32::MAX = 4294967295 and u64::MAX = usize::MAX, as decimal digits.
U32_MAX_DIGITS == <<4, 2, 9, 4, 9, 6, 7, 2, 9, 5>>
U64_MAX_DIGITS == <<1, 8, 4, 4, 6, 7, 4, 4, 0, 7, 3, 7, 0, 9, 5, 5, 1, 6, 1, 5>>

is_digit(c) == \E d \in 1..10 : DigitChars[d] = c
digit_value(c) == (CHOOSE d \in 1..10 : DigitChars[d] = c) - 1

\* The digits without their leading zeros.
RECURSIVE strip_zeros(_)
strip_zeros(ds) ==
    IF ds # <<>> /\ Head(ds) = 0 THEN strip_zeros(Tail(ds)) ELSE ds

\* a > b for digit sequences of the same length.
RECURSIVE digits_greater(_, _)
digits_greater(a, b) ==
    IF a = <<>> THEN FALSE
    ELSE IF Head(a) # Head(b) THEN Head(a) > Head(b)
    ELSE digits_greater(Tail(a), Tail(b))

\* The checked multiply-and-add of the parse overflows: the number written
\* by the digits is above max.
overflows(ds, max) ==
    LET sig == strip_zeros(ds) IN
    \/ Len(sig) > Len(max)
    \/ Len(sig) = Len(max) /\ digits_greater(sig, max)

\* result * 10 + digit over the digits, left to right.
RECURSIVE accumulate(_, _)
accumulate(result, ds) ==
    IF ds = <<>> THEN result
    ELSE accumulate(result * 10 + Head(ds), Tail(ds))

\* str::parse for an unsigned type whose greatest value is max: an optional
\* "+", then one or more digits and nothing else, the value at most max.
parse_unsigned(src, max) ==
    IF src = <<>> THEN Err("Empty")
    ELSE LET digits == IF Head(src) = "+" THEN Tail(src) ELSE src IN
         IF digits = <<>> THEN Err("InvalidDigit")
         ELSE IF \E i \in 1..Len(digits) : ~is_digit(digits[i])
             THEN Err("InvalidDigit")
         ELSE LET ds == [i \in 1..Len(digits) |-> digit_value(digits[i])] IN
              IF overflows(ds, max) THEN Err("PosOverflow")
              ELSE Ok(accumulate(0, ds))

\* str::split(','): the segments between the commas, empty ones included.
RECURSIVE split_from(_, _)
split_from(s, current) ==
    IF s = <<>> THEN <<current>>
    ELSE IF Head(s) = "," THEN <<current>> \o split_from(Tail(s), <<>>)
    ELSE split_from(Tail(s), Append(current, Head(s)))

split(s) == split_from(s, <<>>)

\* str::trim: without leading and trailing white space.
RECURSIVE trim_start(_)
trim_start(s) ==
    IF s # <<>> /\ Head(s) \in WhiteSpace THEN trim_start(Tail(s)) ELSE s

RECURSIVE trim_end(_)
trim_end(s) ==
    IF s # <<>> /\ s[Len(s)] \in WhiteSpace
    THEN trim_end(SubSeq(s, 1, Len(s) - 1)) ELSE s

\* A slip: the segment taken as it is written.
trim_nothing(s) == s

trim(s) == trim_end(trim_start(s))

\* str::to_lowercase on ASCII text.
to_lowercase(s) ==
    [i \in 1..Len(s) |->
        IF \E k \in 1..26 : UpperChars[k] = s[i]
        THEN LowerChars[CHOOSE k \in 1..26 : UpperChars[k] = s[i]]
        ELSE s[i]]

\* a | b on unsigned integers.
RECURSIVE bit_or(_, _)
bit_or(a, b) ==
    IF a = 0 THEN b
    ELSE IF b = 0 THEN a
    ELSE (IF a % 2 = 1 \/ b % 2 = 1 THEN 1 ELSE 0)
            + 2 * bit_or(a \div 2, b \div 2)

\* A slip: the flags added instead of or-ed.
bit_or_adding(a, b) == a + b

\* `flags |= bit`
or_assign(flags, bit) == bit_or(flags, bit)

NAME_IOPOLL == <<"i", "o", "p", "o", "l", "l">>
NAME_SQPOLL == <<"s", "q", "p", "o", "l", "l">>
NAME_SQ_AFF == <<"s", "q", "_", "a", "f", "f">>
NAME_CQSIZE == <<"c", "q", "s", "i", "z", "e">>
NAME_CLAMP == <<"c", "l", "a", "m", "p">>
NAME_ATTACH_WQ == <<"a", "t", "t", "a", "c", "h", "_", "w", "q">>

\* The match on the flag name: its bit, 0 for the empty name, or the bail.
flag_bit(flag_name) ==
    CASE flag_name = NAME_IOPOLL -> Ok(IORING_SETUP_IOPOLL)
      [] flag_name = NAME_SQPOLL -> Ok(IORING_SETUP_SQPOLL)
      [] flag_name = NAME_SQ_AFF -> Ok(IORING_SETUP_SQ_AFF)
      [] flag_name = NAME_CQSIZE -> Ok(IORING_SETUP_CQSIZE)
      [] flag_name = NAME_CLAMP -> Ok(IORING_SETUP_CLAMP)
      [] flag_name = NAME_ATTACH_WQ -> Ok(IORING_SETUP_ATTACH_WQ)
      [] flag_name = <<>> -> Ok(0)
      [] OTHER -> Err(<<"Unknown io_uring flag", flag_name>>)

\* The for loop over the segments: the first unknown name bails.
RECURSIVE parse_flag_names(_, _)
parse_flag_names(segments, flags) ==
    IF segments = <<>> THEN Ok(flags)
    ELSE LET flag_name == to_lowercase(trim(Head(segments)))
             bit == flag_bit(flag_name)
         IN  IF ~bit.ok THEN bit
             ELSE parse_flag_names(Tail(segments), or_assign(flags, bit.value))

\* env::var(key): the value if the variable is set.
env_var(e, key) == e[key]

\* MoverConfig::parse_iouring_flags
parse_iouring_flags(e) ==
    LET flags_str == IF env_var(e, "IOURING_FLAGS") = None THEN NAME_CLAMP
                     ELSE env_var(e, "IOURING_FLAGS")[1]
        num == parse_unsigned(flags_str, U32_MAX_DIGITS)
    IN  IF num.ok THEN Ok(num.value)
        ELSE parse_flag_names(split(flags_str), 0)

\* The segments the enumerated settings are made of: the six names, an
\* empty segment, names in other case or with white space around them,
\* white space alone, an unknown name, and numbers.
FlagSegments ==
    {NAME_IOPOLL, NAME_SQPOLL, NAME_SQ_AFF, NAME_CQSIZE, NAME_CLAMP,
     NAME_ATTACH_WQ,
     <<>>,
     <<"C", "L", "A", "M", "P">>,
     <<" ", "s", "q", "p", "o", "l", "l", " ">>,
     <<" ">>,
     <<"b", "o", "g", "u", "s">>,
     <<"1", "8">>,
     <<"+", "1", "6">>,
     <<"0", "0", "7">>,
     <<"-", "1">>,
     <<"4", "2", "9", "4", "9", "6", "7", "2", "9", "6">>}

\* The segments joined by commas.
RECURSIVE join(_)
join(segments) ==
    IF Len(segments) = 1 THEN segments[1]
    ELSE segments[1] \o <<",">> \o join(Tail(segments))

FlagsInit ==
    /\ \/ env = EmptyEnv
       \/ \E n \in 1..MaxSegments : \E segs \in [1..n -> FlagSegments] :
             env = [EmptyEnv EXCEPT !["IOURING_FLAGS"] = Some(join(segs))]
    /\ flags_result = None
    /\ CodecIdle /\ ConfigIdle /\ MainIdle /\ PoolIdle /\ ConnIdle
    /\ RestIdle

\* Self::parse_iouring_flags()
ParseFlags ==
    /\ flags_result = None
    /\ flags_result' = Some(parse_iouring_flags(env))
    /\ UNCHANGED <<env, codecVars, configVars, main, poolVars, conn, load_result, batch, conns>>

FlagsNext == ParseFlags

SpecFlags == FlagsInit /\ [][FlagsNext]_vars

(***************************************************************************)
(* iouring.rs: BufferPool.  A method that takes `&mut self` is an operator  *)
(* giving the pool afterwards (self) and what the call returns (ret).      *)
(***************************************************************************)
MaxBuffers == 3
MaxBufferLen == 1
MaxOps == 5

\* vec![0u8; n]
vec_zeros(n) == [i \in 1..n |-> 0]

\* A slip: the last index is left out of the free list.
BufferPool_new_one_short(count, buffer_size) ==
    [buffers |-> [i \in 1..count |-> vec_zeros(buffer_size)],
     available |-> [i \in 1..(count - 1) |-> i - 1]]

\* BufferPool::new
BufferPool_new(count, buffer_size) ==
    [buffers |-> [i \in 1..count |-> vec_zeros(buffer_size)],
     available |-> [i \in 1..count |-> i - 1]]

\* A slip: the index is read but left in the free list.
BufferPool_acquire_keeping(self) ==
    IF self.available = <<>>
    THEN [self |-> self, ret |-> None]
    ELSE LET idx == self.available[Len(self.available)] IN
         [self |-> self,
          ret |-> Some([idx |-> idx, buf |-> self.buffers[idx + 1]])]

\* BufferPool::acquire: `self.available.pop()?`, then the index and buffer.
BufferPool_acquire(self) ==
    IF self.available = <<>>
    THEN [self |-> self, ret |-> None]
    ELSE LET idx == self.available[Len(self.available)] IN
         [self |-> [self EXCEPT !.available =
                        SubSeq(self.available, 1, Len(self.available) - 1)],
          ret |-> Some([idx |-> idx, buf |-> self.buffers[idx + 1]])]

\* A slip: the index is put at the other end of the free list.
BufferPool_release_to_front(self, idx) ==
    IF idx < Len(self.buffers)
    THEN [self EXCEPT !.available = <<idx>> \o self.available]
    ELSE self

\* BufferPool::release: the pool afterwards.
BufferPool_release(self, idx) ==
    IF idx < Len(self.buffers)
    THEN [self EXCEPT !.available = Append(self.available, idx)]
    ELSE self

\* A slip: the lookup takes the index out of the free list.
BufferPool_get_taking(self, idx) ==
    [self |-> [self EXCEPT !.available =
                   SelectSeq(self.available, LAMBDA i : i # idx)],
     ret |-> IF idx < Len(self.buffers)
             THEN Some(self.buffers[idx + 1]) ELSE None]

\* BufferPool::get takes `&self`: the pool is as before.
BufferPool_get(self, idx) ==
    [self |-> self,
     ret |-> IF idx < Len(self.buffers)
             THEN Some(self.buffers[idx + 1]) ELSE None]

\* BufferPool::register_with_ring
BufferPool_register_with_ring(self) == Ok("unit")

\* The callers of the pool; the pool of test_buffer_pool has one.
OneCaller == {1}

PoolInit ==
    /\ \E count \in 0..MaxBuffers, buffer_size \in {0, MaxBufferLen} :
          pool = BufferPool_new(count, buffer_size)
    /\ trace = <<>>
    /\ last = None
    /\ owned = [t \in OneCaller |-> {}]
    /\ CodecIdle /\ ConfigIdle /\ env = EmptyEnv /\ FlagsIdle
    /\ MainIdle /\ ConnIdle
    /\ RestIdle

\* pool.acquire() called by t
Acquire(t) ==
    /\ Len(trace) < MaxOps
    /\ LET r == BufferPool_acquire(pool) IN
       /\ pool' = r.self
       /\ trace' = Append(trace,
                     [op |-> "acquire",
                      idx |-> IF r.ret = None THEN None ELSE Some(r.ret[1].idx)])
       /\ last' = Some([op |-> "acquire", task |-> t, arg |-> None,
                        ret |-> r.ret, before |-> pool, owned |-> owned])
       /\ owned' = IF r.ret = None THEN owned
                   ELSE [owned EXCEPT ![t] = @ \cup {r.ret[1].idx}]
    /\ UNCHANGED <<codecVars, configVars, flagVars, main, conn, load_result, batch, conns>>

\* pool.release(idx) called by t
Release(t, idx) ==
    /\ Len(trace) < MaxOps
    /\ pool' = BufferPool_release(pool, idx)
    /\ trace' = Append(trace, [op |-> "release", idx |-> Some(idx)])
    /\ last' = Some([op |-> "release", task |-> t, arg |-> Some(idx),
                     ret |-> None, before |-> pool, owned |-> owned])
    /\ owned' = [owned EXCEPT ![t] = @ \ {idx}]
    /\ UNCHANGED <<codecVars, configVars, flagVars, main, conn, load_result, batch, conns>>

\* pool.get(idx) called by t
Get(t, idx) ==
    /\ LET r == BufferPool_get(pool, idx) IN
       /\ pool' = r.self
       /\ last' = Some([op |-> "get", task |-> t, arg |-> Some(idx),
                        ret |-> r.ret, before |-> pool, owned |-> owned])
    /\ UNCHANGED <<trace, owned, codecVars, configVars, flagVars, main, conn, load_result, batch, conns>>

\* Any caller may pass any index, in range or one past it, held or not.
PoolNext ==
    \/ \E t \in DOMAIN owned : Acquire(t)
    \/ \E t \in DOMAIN owned : \E idx \in 0..Len(pool.buffers) : Release(t, idx)
    \/ \E t \in DOMAIN owned : \E idx \in 0..Len(pool.buffers) : Get(t, idx)

SpecPool == PoolInit /\ [][PoolNext]_vars

(***************************************************************************)
(* main.rs hands the one BufferPool to every connection task it spawns.    *)
(* The tokio-uring runtime runs the tasks on one thread and switches       *)
(* between them at an await only; acquire and release contain none, so     *)
(* each call is one step, and the calls of the tasks interleave freely.    *)
(* release takes any index: nothing in it asks who holds the buffer.       *)
(***************************************************************************)
MaxTasks == 2

Tasks == 1..MaxTasks

TasksInit ==
    /\ \E count \in 0..MaxBuffers :
          pool = BufferPool_new(count, MaxBufferLen)
    /\ trace = <<>>
    /\ last = None
    /\ owned = [t \in Tasks |-> {}]
    /\ CodecIdle /\ ConfigIdle /\ env = EmptyEnv /\ FlagsIdle
    /\ MainIdle /\ ConnIdle
    /\ RestIdle

TasksNext ==
    \/ \E t \in Tasks : Acquire(t)
    \/ \E t \in Tasks : \E idx \in 0..(Len(pool.buffers) - 1) : Release(t, idx)

SpecTasks == TasksInit /\ [][TasksNext]_vars

(***************************************************************************)
(* config.rs: load_from_env; main.rs: main.                                *)
(***************************************************************************)
MaxAccepts == 3

\* get_env_string
get_env_string(e, key, default) ==
    IF env_var(e, key) = None THEN default ELSE env_var(e, key)[1]

\* A slip: a value that does not parse gives 0, not the default.
get_env_u32_or_zero(e, key, default) ==
    IF env_var(e, key) = None THEN default
    ELSE LET parsed == parse_unsigned(env_var(e, key)[1], U32_MAX_DIGITS)
         IN  IF parsed.ok THEN parsed.value ELSE 0

\* get_env_u32: `.ok().and_then(|v| v.parse().ok()).unwrap_or(default)`
get_env_u32(e, key, default) ==
    IF env_var(e, key) = None THEN default
    ELSE LET parsed == parse_unsigned(env_var(e, key)[1], U32_MAX_DIGITS)
         IN  IF parsed.ok THEN parsed.value ELSE default

\* get_env_usize, on a 64-bit target
get_env_usize(e, key, default) ==
    IF env_var(e, key) = None THEN default
    ELSE LET parsed == parse_unsigned(env_var(e, key)[1], U64_MAX_DIGITS)
         IN  IF parsed.ok THEN parsed.value ELSE default

\* get_env_u64
get_env_u64(e, key, default) ==
    IF env_var(e, key) = None THEN default
    ELSE LET parsed == parse_unsigned(env_var(e, key)[1], U64_MAX_DIGITS)
         IN  IF parsed.ok THEN parsed.value ELSE default

\* get_env_bool: `.map(|v| v.to_lowercase() == "true")`
get_env_bool(e, key, default) ==
    IF env_var(e, key) = None THEN default
    ELSE to_lowercase(env_var(e, key)[1]) = <<"t", "r", "u", "e">>

\* MoverConfig::load_from_env
load_from_env(e) ==
    LET flags == parse_iouring_flags(e) IN
    IF ~flags.ok THEN flags
    ELSE Ok([socket_path |-> get_env_string(e, "MOVER_SOCKET", DefaultSocketPath),
             db_url |-> get_env_string(e, "DATABASE_URL",
                                       "postgres://localhost/orchestrator"),
             iouring_entries |-> get_env_u32(e, "IOURING_ENTRIES", 4096),
             iouring_flags |-> flags.value,
             buffer_count |-> get_env_usize(e, "MOVER_BUFFER_COUNT", 256),
             buffer_size |-> get_env_usize(e, "MOVER_BUFFER_SIZE", 4096),
             batch_timeout_ms |-> get_env_u64(e, "MOVER_BATCH_TIMEOUT_MS", 10),
             max_connections |-> get_env_usize(e, "MOVER_MAX_CONNECTIONS", 32),
             enable_huge_pages |-> get_env_bool(e, "MOVER_ENABLE_HUGE_PAGES", FALSE),
             enable_send_zc |-> get_env_bool(e, "MOVER_ENABLE_SEND_ZC", TRUE)])

\* A slip: the loaded configuration is passed on unvalidated.
and_then_skipped(loaded) == loaded

\* `.and_then(|c| c.validate())`
and_then_validate(loaded) ==
    IF loaded.ok THEN MoverConfig_validate(loaded.value) ELSE loaded

\* anyhow's `.context(msg)`
context(result, msg) ==
    IF result.ok THEN result ELSE Err(<<msg, result.err>>)

\* IoUringPool::new
IoUringPool_new(entries, flags) == Ok("IoUringPool")

\* The environments main is started in: each variable unset or set to one
\* of a few values, valid or not.  The pool is given a small buffer count.
EntriesSettings ==
    {None, Some(<<"5", "1", "2">>), Some(<<"1", "0", "0", "0">>),
     Some(<<"a", "b", "c">>)}
FlagsSettings ==
    {None, Some(<<"b", "o", "g", "u", "s">>),
     Some(<<"c", "l", "a", "m", "p", ",", "s", "q", "p", "o", "l", "l">>)}
BufferCountSettings == {Some(<<"0">>), Some(<<"2">>)}
BufferSizeSettings ==
    {Some(<<"0">>), Some(<<"1", "0", "0">>), Some(<<"4", "0", "9", "6">>)}
BatchTimeoutSettings == {None, Some(<<"0">>)}
SocketSettings ==
    {None, Some(<<"m", "o", "v", "e", "r", ".", "s", "o", "c", "k">>)}

MainInit ==
    /\ \E en \in EntriesSettings, fl \in FlagsSettings,
          bc \in BufferCountSettings, bs \in BufferSizeSettings,
          bt \in BatchTimeoutSettings, so \in SocketSettings :
          env = [EmptyEnv EXCEPT !["IOURING_ENTRIES"] = en,
                                 !["IOURING_FLAGS"] = fl,
                                 !["MOVER_BUFFER_COUNT"] = bc,
                                 !["MOVER_BUFFER_SIZE"] = bs,
                                 !["MOVER_BATCH_TIMEOUT_MS"] = bt,
                                 !["MOVER_SOCKET"] = so]
    /\ main = [pc |-> "start", config |-> None, iouring |-> FALSE,
               removed |-> FALSE, bound |-> FALSE, accepted |-> 0,
               accept_errors |-> 0, result |-> None]
    /\ CodecIdle /\ ConfigIdle /\ FlagsIdle /\ PoolIdle /\ ConnIdle
    /\ RestIdle

\* main.rs 37-39: load, validate, `?`
LoadConfig ==
    /\ main.pc = "start"
    /\ LET loaded == context(and_then_validate(load_from_env(env)),
                             "Failed to load configuration")
       IN  main' = IF loaded.ok
                   THEN [main EXCEPT !.pc = "init_iouring",
                                     !.config = Some(loaded.value)]
                   ELSE [main EXCEPT !.pc = "exited", !.result = Some(loaded)]
    /\ UNCHANGED <<codecVars, configVars, flagVars, poolVars, conn, load_result, batch, conns>>

\* main.rs 50: IoUringPool::new(..)?
InitIoUring ==
    /\ main.pc = "init_iouring"
    /\ LET created == IoUringPool_new(main.config[1].iouring_entries,
                                      main.config[1].iouring_flags)
       IN  main' = IF created.ok
                   THEN [main EXCEPT !.pc = "init_buffer_pool", !.iouring = TRUE]
                   ELSE [main EXCEPT !.pc = "exited", !.result = Some(created)]
    /\ UNCHANGED <<codecVars, configVars, flagVars, poolVars, conn, load_result, batch, conns>>

\* main.rs 53-54: BufferPool::new(..), register_with_ring()?
InitBufferPool ==
    /\ main.pc = "init_buffer_pool"
    /\ pool' = BufferPool_new(main.config[1].buffer_count,
                              main.config[1].buffer_size)
    /\ LET registered == BufferPool_register_with_ring(pool')
       IN  main' = IF registered.ok
                   THEN [main EXCEPT !.pc = "remove_socket"]
                   ELSE [main EXCEPT !.pc = "exited", !.result = Some(registered)]
    /\ UNCHANGED <<trace, last, owned, codecVars, configVars, flagVars, conn, load_result, batch, conns>>

\* main.rs 57: `let _ = std::fs::remove_file(..)`, whatever it returns
RemoveSocket ==
    /\ main.pc = "remove_socket"
    /\ main' = [main EXCEPT !.pc = "bind", !.removed = TRUE]
    /\ UNCHANGED <<codecVars, configVars, flagVars, poolVars, conn, load_result, batch, conns>>

\* main.rs 61-62: UnixListener::bind(..) succeeds
BindOk ==
    /\ main.pc = "bind"
    /\ main' = [main EXCEPT !.pc = "accepting", !.bound = TRUE]
    /\ UNCHANGED <<codecVars, configVars, flagVars, poolVars, conn, load_result, batch, conns>>

\* main.rs 61-62: UnixListener::bind(..) fails, `?`
BindErr ==
    /\ main.pc = "bind"
    /\ main' = [main EXCEPT !.pc = "exited",
                            !.result = Some(context(Err("bind"),
                                              "Failed to bind Unix socket"))]
    /\ UNCHANGED <<codecVars, configVars, flagVars, poolVars, conn, load_result, batch, conns>>

(***************************************************************************)
(* main.rs: handle_connection, one connection from accept to close.        *)
(***************************************************************************)
READ_BUFFER_SIZE == 8192

\* The byte of an ASCII character of the handlers' messages.
ascii(c) ==
    IF \E k \in 1..26 : UpperChars[k] = c
        THEN 64 + CHOOSE k \in 1..26 : UpperChars[k] = c
    ELSE IF \E k \in 1..26 : LowerChars[k] = c
        THEN 96 + CHOOSE k \in 1..26 : LowerChars[k] = c
    ELSE IF c = " " THEN 32
    ELSE IF c = "-" THEN 45
    ELSE 95

\* String::into_bytes
into_bytes(message) == [i \in 1..Len(message) |-> ascii(message[i])]

\* A slip: the failure is reported with status Ok.
MoverResponse_error_as_ok(message) ==
    [status |-> "Ok", data |-> into_bytes(message)]

\* MoverResponse::error
MoverResponse_error(message) ==
    [status |-> "Error", data |-> into_bytes(message)]

\* handle_read
handle_read(request) ==
    MoverResponse_error(
        <<"R", "E", "A", "D", " ", "n", "o", "t", " ", "i", "m", "p", "l",
          "e", "m", "e", "n", "t", "e", "d", " ", "-", " ", "n", "e", "e", "d",
          "s", " ", "P", "o", "s", "t", "g", "r", "e", "s", " ", "c", "o", "n",
          "n", "e", "c", "t", "i", "o", "n">>)

\* handle_write
handle_write(request) ==
    MoverResponse_error(
        <<"W", "R", "I", "T", "E", " ", "n", "o", "t", " ", "i", "m", "p",
          "l", "e", "m", "e", "n", "t", "e", "d">>)

\* handle_send_zc
handle_send_zc(request) ==
    MoverResponse_error(
        <<"S", "E", "N", "D", "_", "Z", "C", " ", "n", "o", "t", " ", "i",
          "m", "p", "l", "e", "m", "e", "n", "t", "e", "d">>)

\* handle_recv
handle_recv(request) ==
    MoverResponse_error(
        <<"R", "E", "C", "V", " ", "n", "o", "t", " ", "i", "m", "p", "l",
          "e", "m", "e", "n", "t", "e", "d">>)

\* handle_batch
handle_batch(request) ==
    MoverResponse_error(
        <<"B", "A", "T", "C", "H", " ", "n", "o", "t", " ", "i", "m", "p",
          "l", "e", "m", "e", "n", "t", "e", "d">>)

\* A slip: every operation is given to the Read handler.
handle_request_read_only(request) == handle_read(request)

\* `match req.op { .. }`
handle_request(request) ==
    CASE request.op = "Read" -> handle_read(request)
      [] request.op = "Write" -> handle_write(request)
      [] request.op = "SendZC" -> handle_send_zc(request)
      [] request.op = "Recv" -> handle_recv(request)
      [] request.op = "Batch" -> handle_batch(request)

\* The connection enters a state.
enter(c, state) ==
    [c EXCEPT !.state = state, !.visited = Append(@, state)]

\* A slip: after a response the connection waits for the next request.
finish_keep_alive(c, result) ==
    IF result.ok THEN enter(c, "Accepted")
    ELSE [enter(c, "Closed") EXCEPT !.result = Some(result)]

\* handle_connection returns: the stream is dropped, the connection closed.
finish(c, result) == [enter(c, "Closed") EXCEPT !.result = Some(result)]

\* The task main spawns for an accepted stream on which the client has
\* written sent.
new_connection(sent) ==
    [state |-> "Accepted", visited |-> <<"Accepted">>, sent |-> sent,
     n |-> None, buffer |-> <<>>, req |-> None, response |-> None,
     response_buf |-> <<>>, received |-> <<>>,
     reads |-> 0, decodes |-> 0, handlers |-> 0, writes |-> 0,
     result |-> None]

\* A slip: the read is repeated until the buffer is full or the stream ends.
conn_read_ok_until_full(c, n) ==
    [enter(c, "RequestRead") EXCEPT
        !.n = Some(n),
        !.buffer = SubSeq(c.sent, 1,
                          IF Len(c.sent) < READ_BUFFER_SIZE THEN Len(c.sent)
                          ELSE READ_BUFFER_SIZE),
        !.reads = @ + 1]

\* main.rs 91-93: stream.read(buffer) returns n bytes
conn_read_ok(c, n) ==
    [enter(c, "RequestRead") EXCEPT !.n = Some(n),
                                    !.buffer = SubSeq(c.sent, 1, n),
                                    !.reads = @ + 1]

\* main.rs 92-93: stream.read(buffer) fails, `?`
conn_read_err(c) ==
    finish([c EXCEPT !.reads = @ + 1],
           context(Err("io"), "Failed to read request"))

\* A slip: a frame that does not parse is taken for an empty Read request.
conn_decode_lenient(c) ==
    LET parsed == MoverRequest_read_from(c.buffer)
        request == IF parsed.ok THEN parsed.value
                   ELSE [op |-> "Read", id |-> <<>>, offset |-> 0,
                         length |-> 0, data |-> <<>>]
    IN  [enter(c, "Decoded") EXCEPT !.decodes = @ + 1, !.req = Some(request)]

\* main.rs 96-97: MoverRequest::read_from(&mut &buffer[..n]), `?`
conn_decode(c) ==
    LET parsed == context(MoverRequest_read_from(c.buffer),
                          "Failed to parse request")
        counted == [c EXCEPT !.decodes = @ + 1]
    IN  IF parsed.ok
        THEN [enter(counted, "Decoded") EXCEPT !.req = Some(parsed.value)]
        ELSE finish(counted, parsed)

\* A slip: the handler's response is encoded in the same step.
conn_dispatch_skipping(c) ==
    [enter(c, "ResponseEncoded") EXCEPT
        !.handlers = @ + 1,
        !.response = Some(handle_request(c.req[1])),
        !.response_buf = MoverResponse_write_to(handle_request(c.req[1]))]

\* main.rs 102-108: the handler of the operation gives the response
conn_dispatch(c) ==
    [enter(c, "HandlerDispatch") EXCEPT !.handlers = @ + 1,
                                        !.response = Some(handle_request(c.req[1]))]

\* main.rs 111-112: response.write_to(&mut response_buf), into a Vec
conn_encode(c) ==
    [enter(c, "ResponseEncoded") EXCEPT
        !.response_buf = MoverResponse_write_to(c.response[1])]

\* main.rs 114-117: stream.write(response_buf) succeeds, Ok(())
conn_write_ok(c) ==
    finish([enter(c, "Sent") EXCEPT !.writes = @ + 1,
                                    !.received = @ \o c.response_buf],
           Ok("unit"))

\* main.rs 114-115: stream.write(response_buf) fails, `?`
conn_write_err(c) ==
    finish([c EXCEPT !.writes = @ + 1],
           context(Err("io"), "Failed to send response"))

\* The requests a client sends.
ConnRequests ==
    [op : OpCode, id : {<<>>, <<97>>}, offset : {0}, length : {1024},
     data : {<<>>, <<200>>}]

\* What a client writes before it waits for the answer: nothing, a frame,
\* a frame with an unknown op code, two frames back to back, and a frame
\* larger than the read buffer.
ConnStreams ==
    {<<>>}
    \cup {MoverRequest_write_to(r) : r \in ConnRequests}
    \cup {<<9>> \o Tail(MoverRequest_write_to(r)) :
            r \in {q \in ConnRequests : q.op = "Read"}}
    \cup {MoverRequest_write_to(r) \o MoverRequest_write_to(s) :
            r \in {q \in ConnRequests : q.data = <<>>},
            s \in {q \in ConnRequests : q.id = <<>> /\ q.op \in {"Read", "Batch"}}}
    \cup {MoverRequest_write_to([op |-> "Write", id |-> <<97>>, offset |-> 0,
                                 length |-> READ_BUFFER_SIZE,
                                 data |-> vec_zeros(READ_BUFFER_SIZE)])}

\* What one read of the stream can return: 0 at end of stream, otherwise
\* some of the bytes, at most the buffer's size.
ReadCounts(sent) ==
    LET most == IF Len(sent) < READ_BUFFER_SIZE THEN Len(sent)
                ELSE READ_BUFFER_SIZE
    IN  IF sent = <<>> THEN {0}
        ELSE {n \in 1..most : n <= MaxCut \/ n >= most - 1}

ConnInit ==
    /\ \E sent \in ConnStreams : conn = new_connection(sent)
    /\ CodecIdle /\ ConfigIdle /\ env = EmptyEnv /\ FlagsIdle
    /\ MainIdle /\ PoolIdle
    /\ RestIdle

ConnRest ==
    UNCHANGED <<codecVars, configVars, flagVars, main, poolVars,
                load_result, batch, conns>>

ReadOk ==
    /\ conn.state = "Accepted"
    /\ \E n \in ReadCounts(conn.sent) : conn' = conn_read_ok(conn, n)
    /\ ConnRest

ReadErr ==
    /\ conn.state = "Accepted"
    /\ conn' = conn_read_err(conn)
    /\ ConnRest

Decode ==
    /\ conn.state = "RequestRead"
    /\ conn' = conn_decode(conn)
    /\ ConnRest

Dispatch ==
    /\ conn.state = "Decoded"
    /\ conn' = conn_dispatch(conn)
    /\ ConnRest

Encode ==
    /\ conn.state = "HandlerDispatch"
    /\ conn' = conn_encode(conn)
    /\ ConnRest

WriteOk ==
    /\ conn.state = "ResponseEncoded"
    /\ conn' = conn_write_ok(conn)
    /\ ConnRest

WriteErr ==
    /\ conn.state = "ResponseEncoded"
    /\ conn' = conn_write_err(conn)
    /\ ConnRest

ConnNext ==
    \/ ReadOk
    \/ ReadErr
    \/ Decode
    \/ Dispatch
    \/ Encode
    \/ WriteOk
    \/ WriteErr

SpecConn == ConnInit /\ [][ConnNext]_vars

(***************************************************************************)
(* main.rs: the accept loop of main and the connection tasks it spawns.    *)
(* The tasks share the runtime's one thread and give way at each await.    *)
(***************************************************************************)
\* What the clients of the accepted connections write: nothing, a Read
\* frame, a Batch frame, and a frame with an unknown op code.
ServerStreams ==
    {<<>>,
     MoverRequest_write_to([op |-> "Read", id |-> <<97>>, offset |-> 0,
                            length |-> 1024, data |-> <<>>]),
     MoverRequest_write_to([op |-> "Batch", id |-> <<>>, offset |-> 0,
                            length |-> 1024, data |-> <<200>>]),
     <<9>> \o Tail(MoverRequest_write_to([op |-> "Read", id |-> <<>>,
                                          offset |-> 0, length |-> 1024,
                                          data |-> <<>>]))}

\* A slip: an accept error ends the loop.
accept_err_exiting(m) ==
    [m EXCEPT !.pc = "exited",
              !.result = Some(context(Err("accept"), "Accept error"))]

\* main.rs 77-79: `error!("Accept error: {}", e)`, and the loop goes on
accept_err(m) == [m EXCEPT !.accept_errors = @ + 1]

\* main.rs 70-76: accept gives a stream; a handler task is spawned
AcceptOk ==
    /\ main.pc = "accepting"
    /\ main.accepted + main.accept_errors < MaxAccepts
    /\ main' = [main EXCEPT !.accepted = @ + 1]
    /\ \E sent \in ServerStreams : conns' = Append(conns, new_connection(sent))
    /\ UNCHANGED <<codecVars, configVars, flagVars, poolVars, conn,
                   load_result, batch>>

\* main.rs 77-79: accept fails; the error is logged and the loop goes on
AcceptErr ==
    /\ main.pc = "accepting"
    /\ main.accepted + main.accept_errors < MaxAccepts
    /\ main' = accept_err(main)
    /\ UNCHANGED <<codecVars, configVars, flagVars, poolVars, conn,
                   load_result, batch, conns>>

MainNext ==
    \/ LoadConfig
    \/ InitIoUring
    \/ InitBufferPool
    \/ RemoveSocket
    \/ BindOk
    \/ BindErr
    \/ AcceptOk
    \/ AcceptErr

SpecMain == MainInit /\ [][MainNext]_vars

\* The environment of a server with a pool of one empty buffer.
ServerEnv ==
    [EmptyEnv EXCEPT !["MOVER_BUFFER_COUNT"] = Some(<<"1">>),
                     !["MOVER_BUFFER_SIZE"] = Some(<<"0">>)]

\* main.rs 37-62 done: main after UnixListener::bind succeeded.
ServerInit ==
    /\ env = ServerEnv
    /\ main = [pc |-> "accepting",
               config |-> Some(load_from_env(ServerEnv).value),
               iouring |-> TRUE, removed |-> TRUE, bound |-> TRUE,
               accepted |-> 0, accept_errors |-> 0, result |-> None]
    /\ pool = BufferPool_new(load_from_env(ServerEnv).value.buffer_count,
                             load_from_env(ServerEnv).value.buffer_size)
    /\ trace = <<>> /\ last = None /\ owned = <<>>
    /\ conns = <<>>
    /\ CodecIdle /\ ConfigIdle /\ FlagsIdle /\ ConnIdle /\ LoadIdle
    /\ BatchIdle

ServerRest ==
    UNCHANGED <<codecVars, configVars, flagVars, main, poolVars, conn,
                load_result, batch>>

\* What the read of a spawned task returns: nothing at end of stream, the
\* first byte, or all that the client wrote.
ServerReadCounts(sent) == ReadCounts(sent) \cap {0, 1, Len(sent)}

\* main.rs 92-93 in task i: stream.read(..).await gives n bytes
ConnReadOk(i) ==
    /\ conns[i].state = "Accepted"
    /\ \E n \in ServerReadCounts(conns[i].sent) :
          conns' = [conns EXCEPT ![i] = conn_read_ok(@, n)]
    /\ ServerRest

\* main.rs 92-93 in task i: stream.read(..).await fails, `?`
ConnReadErr(i) ==
    /\ conns[i].state = "Accepted"
    /\ conns' = [conns EXCEPT ![i] = conn_read_err(@)]
    /\ ServerRest

\* main.rs 96-97 in task i
ConnDecode(i) ==
    /\ conns[i].state = "RequestRead"
    /\ conns' = [conns EXCEPT ![i] = conn_decode(@)]
    /\ ServerRest

\* main.rs 102-108 in task i
ConnDispatch(i) ==
    /\ conns[i].state = "Decoded"
    /\ conns' = [conns EXCEPT ![i] = conn_dispatch(@)]
    /\ ServerRest

\* main.rs 111-112 in task i
ConnEncode(i) ==
    /\ conns[i].state = "HandlerDispatch"
    /\ conns' = [conns EXCEPT ![i] = conn_encode(@)]
    /\ ServerRest

\* main.rs 114-117 in task i: stream.write(..).await succeeds
ConnWriteOk(i) ==
    /\ conns[i].state = "ResponseEncoded"
    /\ conns' = [conns EXCEPT ![i] = conn_write_ok(@)]
    /\ ServerRest

\* main.rs 114-115 in task i: stream.write(..).await fails, `?`
ConnWriteErr(i) ==
    /\ conns[i].state = "ResponseEncoded"
    /\ conns' = [conns EXCEPT ![i] = conn_write_err(@)]
    /\ ServerRest

ServerNext ==
    \/ AcceptOk
    \/ AcceptErr
    \/ \E i \in 1..Len(conns) :
          \/ ConnReadOk(i)
          \/ ConnReadErr(i)
          \/ ConnDecode(i)
          \/ ConnDispatch(i)
          \/ ConnEncode(i)
          \/ ConnWriteOk(i)
          \/ ConnWriteErr(i)

SpecServer == ServerInit /\ [][ServerNext]_vars

(***************************************************************************)
(* config.rs: load_from_env on environments whose numeric and boolean      *)
(* settings are unset, well-formed or malformed, followed by validate.     *)
(***************************************************************************)
\* 2^32 and 2^64, the first values u32 and u64 / usize cannot hold.
OverflowsU32 == <<"4", "2", "9", "4", "9", "6", "7", "2", "9", "6">>
OverflowsU64 ==
    <<"1", "8", "4", "4", "6", "7", "4", "4", "0", "7", "3", "7", "0", "9",
      "5", "5", "1", "6", "1", "6">>

\* Settings that are no number of the field's type.
Malformed(overflowing) ==
    {Some(<<"a", "b", "c">>), Some(<<"-", "5">>), Some(overflowing)}

LoadInit ==
    /\ \E en \in {None, Some(<<"5", "1", "2">>)} \cup Malformed(OverflowsU32),
          bc \in {None, Some(<<"2">>)} \cup Malformed(OverflowsU64),
          bs \in {None, Some(<<"8", "1", "9", "2">>)} \cup Malformed(OverflowsU64),
          bt \in {None, Some(<<"1", "0", "0">>)} \cup Malformed(OverflowsU64),
          mc \in {None, Some(<<"6", "4">>)} \cup Malformed(OverflowsU64),
          fl \in {None, Some(<<"b", "o", "g", "u", "s">>)},
          hp \in {None, Some(<<"T", "R", "U", "E">>), Some(<<"y", "e", "s">>)} :
          env = [EmptyEnv EXCEPT !["IOURING_ENTRIES"] = en,
                                 !["MOVER_BUFFER_COUNT"] = bc,
                                 !["MOVER_BUFFER_SIZE"] = bs,
                                 !["MOVER_BATCH_TIMEOUT_MS"] = bt,
                                 !["MOVER_MAX_CONNECTIONS"] = mc,
                                 !["IOURING_FLAGS"] = fl,
                                 !["MOVER_ENABLE_HUGE_PAGES"] = hp]
    /\ load_result = None
    /\ ConfigIdle /\ CodecIdle /\ FlagsIdle /\ MainIdle /\ PoolIdle /\ ConnIdle
    /\ BatchIdle /\ ServerIdle

\* MoverConfig::load_from_env()
LoadFromEnv ==
    /\ load_result = None
    /\ load_result' = Some(load_from_env(env))
    /\ config' = IF load_from_env(env).ok
                 THEN Some(load_from_env(env).value) ELSE None
    /\ UNCHANGED <<validated, codecVars, flagVars, main, poolVars, conn,
                   batch, conns>>

LoadNext ==
    \/ LoadFromEnv
    \/ Validate

SpecLoad == LoadInit /\ [][LoadNext]_vars

(***************************************************************************)
(* iouring.rs: IoUringPool::batch_read.  Each read is a spawned task that  *)
(* opens the file and reads at the offset; batch_read then awaits the      *)
(* handles in the order of the reads.  Time passes on its own: nothing in  *)
(* batch_read reads a clock or the configured batch timeout.               *)
(***************************************************************************)
MaxReads == 3

\* The files the reads name: the bytes of a file, or None for no such file.
file_content(path) ==
    IF path = "data" THEN Some(<<11, 12>>) ELSE None

\* struct ReadOp: a whole read, a read that runs past the end of the file,
\* and a read of a file that does not exist.
ReadOps ==
    {[path |-> "data", offset |-> 0, length |-> 2],
     [path |-> "data", offset |-> 1, length |-> 2],
     [path |-> "missing", offset |-> 0, length |-> 1]}

\* `vec![0u8; length]`, then file.read_at(buf, offset): the buffer with the
\* bytes the file has from offset on, the rest left zero.
read_at(content, length, offset) ==
    [j \in 1..length |->
        IF offset + j <= Len(content) THEN content[offset + j] ELSE 0]

\* A slip: a failed read is left out and the batch goes on.
batch_await_skipping(b) ==
    [b EXCEPT !.next = @ + 1,
              !.results = IF b.tasks[b.next].out[1].ok
                          THEN Append(@, b.tasks[b.next].out[1].value)
                          ELSE @]

\* A slip: the results are collected latest first.
batch_await_prepending(b) ==
    LET out == b.tasks[b.next].out[1] IN
    IF out.ok
    THEN [b EXCEPT !.next = @ + 1, !.results = <<out.value>> \o @]
    ELSE [b EXCEPT !.pc = "returned", !.ret = Some(Err(out.err))]

\* `results.push(handle.await??)` for the handle awaited next, once its
\* task is done.
batch_await(b) ==
    LET out == b.tasks[b.next].out[1] IN
    IF out.ok
    THEN [b EXCEPT !.next = @ + 1, !.results = Append(@, out.value)]
    ELSE [b EXCEPT !.pc = "returned", !.ret = Some(Err(out.err))]

\* A task is done with an outcome.
task_done(b, i, out) ==
    [b EXCEPT !.tasks[i] = [state |-> "done", out |-> Some(out)],
              !.completed = Append(@, i)]

BatchInit ==
    /\ \E n \in 0..MaxReads : \E reads \in [1..n -> ReadOps] :
          batch = [pc |-> "called", reads |-> reads, tasks |-> <<>>,
                   completed |-> <<>>, next |-> 1, results |-> <<>>,
                   ret |-> None, elapsed |-> 0]
    /\ config = Some([with_defaults EXCEPT !.batch_timeout_ms = 1])
    /\ validated = None
    /\ CodecIdle /\ env = EmptyEnv /\ FlagsIdle /\ MainIdle /\ PoolIdle
    /\ ConnIdle /\ LoadIdle /\ ServerIdle

BatchRest ==
    UNCHANGED <<codecVars, configVars, flagVars, main, poolVars, conn,
                load_result, conns>>

\* iouring.rs 71-82: a task is spawned for every read
BatchSpawn ==
    /\ batch.pc = "called"
    /\ batch' = [batch EXCEPT
                    !.pc = "awaiting",
                    !.tasks = [i \in 1..Len(batch.reads) |->
                                  [state |-> "spawned", out |-> None]]]
    /\ BatchRest

\* iouring.rs 75: File::open(&read_op.path).await?
TaskOpen(i) ==
    /\ batch.pc # "called"
    /\ batch.tasks[i].state = "spawned"
    /\ batch' = IF file_content(batch.reads[i].path) = None
                THEN task_done(batch, i, Err("NotFound"))
                ELSE [batch EXCEPT !.tasks[i].state = "opened"]
    /\ BatchRest

\* iouring.rs 76-79: read_at succeeds; the buffer is the task's result
TaskReadOk(i) ==
    /\ batch.pc # "called"
    /\ batch.tasks[i].state = "opened"
    /\ batch' = task_done(batch, i,
                    Ok(read_at(file_content(batch.reads[i].path)[1],
                               batch.reads[i].length, batch.reads[i].offset)))
    /\ BatchRest

\* iouring.rs 77-78: read_at fails, `?`
TaskReadErr(i) ==
    /\ batch.pc # "called"
    /\ batch.tasks[i].state = "opened"
    /\ batch' = task_done(batch, i, Err("io"))
    /\ BatchRest

\* The task ends without a result: its handle gives a JoinError.
TaskAbort(i) ==
    /\ batch.pc # "called"
    /\ batch.tasks[i].state # "done"
    /\ batch' = task_done(batch, i, Err("JoinError"))
    /\ BatchRest

\* iouring.rs 86-88: the next handle is awaited and its task is done
BatchAwait ==
    /\ batch.pc = "awaiting"
    /\ batch.next <= Len(batch.reads)
    /\ batch.tasks[batch.next].state = "done"
    /\ batch' = batch_await(batch)
    /\ BatchRest

\* iouring.rs 90: Ok(results)
BatchReturn ==
    /\ batch.pc = "awaiting"
    /\ batch.next > Len(batch.reads)
    /\ batch' = [batch EXCEPT !.pc = "returned", !.ret = Some(Ok(batch.results))]
    /\ BatchRest

\* A millisecond passes while batch_read has not returned.
Tick ==
    /\ batch.pc = "awaiting"
    /\ batch.elapsed <= config[1].batch_timeout_ms
    /\ batch' = [batch EXCEPT !.elapsed = @ + 1]
    /\ BatchRest

BatchNext ==
    \/ BatchSpawn
    \/ \E i \in 1..Len(batch.reads) : TaskOpen(i)
    \/ \E i \in 1..Len(batch.reads) : TaskReadOk(i)
    \/ \E i \in 1..Len(batch.reads) : TaskReadErr(i)
    \/ \E i \in 1..Len(batch.reads) : TaskAbort(i)
    \/ BatchAwait
    \/ BatchReturn
    \/ Tick

SpecBatch == BatchInit /\ [][BatchNext]_vars

(***************************************************************************)
(* Properties of the wire codec.                                           *)
(***************************************************************************)
\* The request the codec is exercised on fits the wire format's field widths.
ValidRequest == req # None /\ Len(req[1].id) <= U16_MAX

\* bytes is the little-endian form of x on Len(bytes) bytes (x < 2^31).
IsLittleEndian(bytes, x) ==
    /\ \A i \in 1..Len(bytes) : bytes[i] \in 0..255
    /\ \A i \in 5..Len(bytes) : bytes[i] = 0
    /\ x = bytes[1] + 256 * bytes[2]
           + (IF Len(bytes) > 2
              THEN 65536 * bytes[3] + 16777216 * bytes[4] ELSE 0)

\* C1: decoding the bytes write_to produced for a valid request succeeds
\* and gives back the same op, id, offset, length and data.
C1_RequestRoundTrip ==
    (pc = "read" /\ ValidRequest /\ ~cut) =>
        /\ decoded[1].by = "MoverRequest"
        /\ decoded[1].result.ok
        /\ decoded[1].result.value.op = req[1].op
        /\ decoded[1].result.value.id = req[1].id
        /\ decoded[1].result.value.offset = req[1].offset
        /\ decoded[1].result.value.length = req[1].length
        /\ decoded[1].result.value.data = req[1].data

C1_Witness ==
    /\ pc = "read" /\ ValidRequest /\ ~cut
    /\ req[1].op = "Batch"
    /\ Len(req[1].id) = 2
    /\ req[1].offset = 2147483647
    /\ req[1].length = 1024
    /\ Len(req[1].data) = 2
    /\ decoded[1].result.ok

\* C2: decoding the bytes write_to produced for a response succeeds and
\* gives back the same status and payload.
C2_ResponseRoundTrip ==
    (pc = "read" /\ resp # None /\ ~cut) =>
        /\ decoded[1].by = "MoverResponse"
        /\ decoded[1].result.ok
        /\ decoded[1].result.value.status = resp[1].status
        /\ decoded[1].result.value.data = resp[1].data

C2_Witness ==
    /\ pc = "read" /\ resp # None /\ ~cut
    /\ resp[1].status = "NotFound"
    /\ Len(resp[1].data) = 2
    /\ decoded[1].result.ok

\* C3: write_to of a request whose identifier is longer than 65535 bytes
\* returns an error, and a frame it emits carries the real identifier length
\* in its length prefix, never a wrapped one.
C3_OversizedEncodeFails ==
    (pc = "written" /\ req # None /\ wres # None /\ ~cut) =>
        /\ Len(req[1].id) > U16_MAX => ~wres[1].ok
        /\ wres[1].ok => from_le_bytes(SubSeq(buffer, 2, 3)) = Len(req[1].id)

\* C4: a first byte outside the known tags makes read_from fail, whatever
\* follows it: 1..5 for a request, 0..2 for a response.
C4_UnknownTagRejected ==
    (pc = "read" /\ buffer # <<>>) =>
        /\ (decoded[1].by = "MoverRequest" /\ buffer[1] \notin {1, 2, 3, 4, 5})
              => ~decoded[1].result.ok
        /\ (decoded[1].by = "MoverResponse" /\ buffer[1] \notin {0, 1, 2})
              => ~decoded[1].result.ok

C4_Witness ==
    /\ pc = "read"
    /\ Len(buffer) > 23
    /\ buffer[1] = 153
    /\ decoded[1].by = "MoverRequest"
    /\ ~decoded[1].result.ok

\* C5: read_from fails on every strict prefix of the encoding of a valid
\* request or response, the empty input included.
C5_TruncatedRejected ==
    (pc = "read" /\ cut /\ (ValidRequest \/ resp # None)) =>
        ~decoded[1].result.ok

C5_Witness ==
    /\ pc = "read" /\ cut /\ ValidRequest
    /\ Len(req[1].data) = 2
    /\ Len(buffer) = 23 + Len(req[1].id) + 1
    /\ ~decoded[1].result.ok

\* C6: a request is encoded as tag, id length (2 bytes LE), id, offset
\* (8 bytes LE), length (8 bytes LE), data length (4 bytes LE), data, in
\* 23 + |id| + |data| bytes; a response as tag, data length (4 bytes LE),
\* data, in 5 + |data| bytes.
C6_FrameLayout ==
    /\ (pc = "written" /\ ValidRequest /\ ~cut) =>
          LET r == req[1]
              n == Len(r.id)
          IN  /\ Len(buffer) = 23 + n + Len(r.data)
              /\ buffer[1] = (CASE r.op = "Read" -> 1 [] r.op = "Write" -> 2
                                [] r.op = "SendZC" -> 3 [] r.op = "Recv" -> 4
                                [] r.op = "Batch" -> 5)
              /\ IsLittleEndian(SubSeq(buffer, 2, 3), n)
              /\ SubSeq(buffer, 4, 3 + n) = r.id
              /\ IsLittleEndian(SubSeq(buffer, 4 + n, 11 + n), r.offset)
              /\ IsLittleEndian(SubSeq(buffer, 12 + n, 19 + n), r.length)
              /\ IsLittleEndian(SubSeq(buffer, 20 + n, 23 + n), Len(r.data))
              /\ SubSeq(buffer, 24 + n, Len(buffer)) = r.data
    /\ (pc = "written" /\ resp # None /\ ~cut) =>
          LET r == resp[1]
          IN  /\ Len(buffer) = 5 + Len(r.data)
              /\ buffer[1] = (CASE r.status = "Ok" -> 0
                                [] r.status = "NotFound" -> 1
                                [] r.status = "Error" -> 2)
              /\ IsLittleEndian(SubSeq(buffer, 2, 5), Len(r.data))
              /\ SubSeq(buffer, 6, Len(buffer)) = r.data

C6_Witness ==
    /\ pc = "written" /\ ValidRequest /\ ~cut
    /\ req[1].op = "SendZC"
    /\ Len(req[1].id) = 2
    /\ Len(req[1].data) = 2
    /\ Len(buffer) = 27

(***************************************************************************)
(* Properties of the configuration validation.                             *)
(***************************************************************************)
EntriesValid(c) == c.iouring_entries \in {256, 512, 1024, 2048, 4096, 8192}
BufferSizeValid(c) ==
    \E k \in 0..(c.buffer_size \div 4096) : c.buffer_size = 4096 * k
BufferCountValid(c) == c.buffer_count \in 1..1024
BatchTimeoutValid(c) == c.batch_timeout_ms \in 1..1000
SocketPathValid(c) == c.socket_path # <<>> /\ Head(c.socket_path) = "/"

\* C7: validate fails unless iouring_entries is one of 256, 512, 1024, 2048,
\* 4096, 8192; with the other fields valid it succeeds for each of these,
\* and the default configuration validates.
C7_EntriesChecked ==
    validated # None =>
        LET c == config[1] IN
        /\ ~EntriesValid(c) => ~validated[1].ok
        /\ (EntriesValid(c) /\ BufferSizeValid(c) /\ BufferCountValid(c)
              /\ BatchTimeoutValid(c) /\ SocketPathValid(c)) => validated[1].ok
        /\ c = with_defaults => validated[1].ok

C7_Witness ==
    /\ validated # None
    /\ config[1].iouring_entries = 1000
    /\ BufferSizeValid(config[1]) /\ BufferCountValid(config[1])
    /\ BatchTimeoutValid(config[1]) /\ SocketPathValid(config[1])
    /\ ~validated[1].ok

\* C8: validate fails whenever buffer_size is not a multiple of 4096 and,
\* with the other fields valid, succeeds whenever it is one.
C8_BufferSizeChecked ==
    validated # None =>
        LET c == config[1] IN
        /\ ~BufferSizeValid(c) => ~validated[1].ok
        /\ (BufferSizeValid(c) /\ EntriesValid(c) /\ BufferCountValid(c)
              /\ BatchTimeoutValid(c) /\ SocketPathValid(c)) => validated[1].ok

C8_Witness ==
    /\ validated # None
    /\ config[1].buffer_size = 8192
    /\ config[1].iouring_entries = 256
    /\ validated[1].ok

\* C9: validate fails whenever buffer_count is outside 1..1024 or
\* batch_timeout_ms is outside 1..1000 and, with the other fields valid,
\* succeeds for every buffer_count in 1..1024 and batch_timeout_ms in 1..1000.
C9_CountAndTimeoutChecked ==
    validated # None =>
        LET c == config[1] IN
        /\ ~BufferCountValid(c) => ~validated[1].ok
        /\ ~BatchTimeoutValid(c) => ~validated[1].ok
        /\ (BufferCountValid(c) /\ BatchTimeoutValid(c) /\ EntriesValid(c)
              /\ BufferSizeValid(c) /\ SocketPathValid(c)) => validated[1].ok

C9_Witness ==
    /\ validated # None
    /\ config[1].buffer_count = 0
    /\ config[1].batch_timeout_ms = 10
    /\ EntriesValid(config[1]) /\ BufferSizeValid(config[1])
    /\ SocketPathValid(config[1])
    /\ ~validated[1].ok

\* C10: validate fails whenever socket_path does not start with "/" (the
\* empty path included); with the other fields valid it succeeds for an
\* absolute path, and on success it returns the configuration unchanged.
C10_SocketPathChecked ==
    validated # None =>
        LET c == config[1] IN
        /\ ~SocketPathValid(c) => ~validated[1].ok
        /\ (SocketPathValid(c) /\ EntriesValid(c) /\ BufferSizeValid(c)
              /\ BufferCountValid(c) /\ BatchTimeoutValid(c)) => validated[1].ok
        /\ validated[1].ok => validated[1].value = c

C10_Witness ==
    /\ validated # None
    /\ config[1].socket_path =
          <<"r", "e", "l", "a", "t", "i", "v", "e", "/", "p", "a", "t", "h">>
    /\ EntriesValid(config[1]) /\ BufferSizeValid(config[1])
    /\ BufferCountValid(config[1]) /\ BatchTimeoutValid(config[1])
    /\ ~validated[1].ok

(***************************************************************************)
(* Properties of parse_iouring_flags.                                      *)
(***************************************************************************)
\* The setting parse_iouring_flags works on.
Setting ==
    IF env["IOURING_FLAGS"] = None THEN <<"c", "l", "a", "m", "p">>
    ELSE env["IOURING_FLAGS"][1]

DecimalDigits == {"0", "1", "2", "3", "4", "5", "6", "7", "8", "9"}
SixNames ==
    {<<"i", "o", "p", "o", "l", "l">>, <<"s", "q", "p", "o", "l", "l">>,
     <<"s", "q", "_", "a", "f", "f">>, <<"c", "q", "s", "i", "z", "e">>,
     <<"c", "l", "a", "m", "p">>,
     <<"a", "t", "t", "a", "c", "h", "_", "w", "q">>}

BitOf(name) ==
    CASE name = <<"i", "o", "p", "o", "l", "l">> -> 1
      [] name = <<"s", "q", "p", "o", "l", "l">> -> 2
      [] name = <<"s", "q", "_", "a", "f", "f">> -> 4
      [] name = <<"c", "q", "s", "i", "z", "e">> -> 8
      [] name = <<"c", "l", "a", "m", "p">> -> 16
      [] name = <<"a", "t", "t", "a", "c", "h", "_", "w", "q">> -> 32

\* The bits of a set of names, or-ed: the names' bits are distinct.
RECURSIVE SumBits(_)
SumBits(names) ==
    IF names = {} THEN 0
    ELSE LET n == CHOOSE x \in names : TRUE
         IN  BitOf(n) + SumBits(names \ {n})

\* s with a leading sign taken off.
Unsigned(s) ==
    IF s # <<>> /\ Head(s) \in {"+", "-"} THEN Tail(s) ELSE s

\* s is written as a decimal integer: digits, possibly after a sign.
IsDecimalInteger(s) ==
    /\ Unsigned(s) # <<>>
    /\ \A i \in 1..Len(Unsigned(s)) : Unsigned(s)[i] \in DecimalDigits

\* The decimal digits of n, most significant first; none for 0.
RECURSIVE ToDigits(_)
ToDigits(n) ==
    IF n = 0 THEN <<>> ELSE Append(ToDigits(n \div 10), n % 10)

\* The significant digits a decimal integer is written with.
SignificantDigits(s) ==
    strip_zeros([i \in 1..Len(Unsigned(s)) |->
                    CHOOSE d \in 0..9 : DigitChars[d + 1] = Unsigned(s)[i]])

\* s is a decimal integer without a minus sign, at most 4294967295.
IsU32Literal(s) ==
    /\ IsDecimalInteger(s)
    /\ Head(s) # "-"
    /\ LET sig == SignificantDigits(s) IN
       \/ Len(sig) < 10
       \/ Len(sig) = 10 /\ ~digits_greater(sig, <<4, 2, 9, 4, 9, 6, 7, 2, 9, 5>>)

\* C11 as stated: a setting that is a decimal integer yields that integer.
C11_DecimalYieldsLiteral ==
    (flags_result # None /\ IsDecimalInteger(Setting)) =>
        /\ flags_result[1].ok
        /\ Head(Setting) # "-"
        /\ ToDigits(flags_result[1].value) = SignificantDigits(Setting)

\* C11, amended: a setting that is a decimal integer of at most 4294967295,
\* written without a minus sign, yields that integer; a comma-separated
\* list of the six names yields the or of their bits, whatever the order
\* and the repetitions.
C11_FlagsValue ==
    flags_result # None =>
        /\ IsU32Literal(Setting) =>
              /\ flags_result[1].ok
              /\ ToDigits(flags_result[1].value) = SignificantDigits(Setting)
        /\ \A n \in 1..(MaxSegments + 1) : \A names \in [1..n -> SixNames] :
              Setting = join(names) =>
                 flags_result[1] =
                    Ok(SumBits({names[i] : i \in 1..n}))

C11_Witness ==
    /\ flags_result # None
    /\ Setting = <<"c", "l", "a", "m", "p", ",", "s", "q", "p", "o", "l", "l">>
    /\ flags_result[1] = Ok(18)

\* A segment is a name written in any case with white space around it.
SameLetter(c, d) ==
    c = d \/ \E k \in 1..26 : UpperChars[k] = c /\ LowerChars[k] = d

Denotes(seg, name) ==
    \E i \in 1..(Len(seg) + 1) :
        LET j == i + Len(name) - 1 IN
        /\ j <= Len(seg)
        /\ \A k \in 1..Len(seg) : (k < i \/ k > j) => seg[k] \in {" ", "\t", "\n"}
        /\ \A k \in 1..Len(name) : SameLetter(seg[i + k - 1], name[k])

SettingSegments == {split(Setting)[i] : i \in 1..Len(split(Setting))}

\* C12 as stated: any non-empty segment that is not one of the six names
\* makes a non-numeric setting fail.
C12_UnlistedSegmentFails ==
    (flags_result # None /\ ~IsU32Literal(Setting)) =>
        ((\E seg \in SettingSegments : seg # <<>> /\ seg \notin SixNames)
            => ~flags_result[1].ok)

\* C12, amended: a non-numeric setting fails if some segment, once its
\* surrounding white space is trimmed and it is lower-cased, is neither
\* empty nor one of the six names; otherwise the segments that are then
\* empty contribute nothing and the result is the or of the named bits.
C12_UnknownNameFails ==
    (flags_result # None /\ ~IsU32Literal(Setting)) =>
        LET known(seg) == \E name \in SixNames : Denotes(seg, name)
            blank(seg) == Denotes(seg, <<>>)
        IN  IF \E seg \in SettingSegments : ~blank(seg) /\ ~known(seg)
            THEN ~flags_result[1].ok
            ELSE flags_result[1] =
                    Ok(SumBits({name \in SixNames :
                                  \E seg \in SettingSegments : Denotes(seg, name)}))

C12_Witness ==
    /\ flags_result # None
    /\ Setting = <<"c", "l", "a", "m", "p", ",", "b", "o", "g", "u", "s">>
    /\ ~flags_result[1].ok

(***************************************************************************)
(* Properties of the buffer pool.                                          *)
(***************************************************************************)
\* N, the number of buffers the pool was created with.
PoolSize == Len(pool.buffers)

\* No release has been called so far.
NoRelease == \A i \in 1..Len(trace) : trace[i].op = "acquire"

\* C14: with no release in between, the first N calls to acquire each
\* return a distinct index in 0..N-1, and the next call returns None and
\* leaves the pool as it was.
C14_ExactlyNAcquisitions ==
    NoRelease =>
        /\ \A i \in 1..Len(trace) :
              IF i <= PoolSize
              THEN /\ trace[i].idx # None
                   /\ trace[i].idx[1] \in 0..(PoolSize - 1)
              ELSE trace[i].idx = None
        /\ \A i, j \in 1..Len(trace) :
              (i < j /\ j <= PoolSize) => trace[i].idx # trace[j].idx
        /\ (Len(trace) > PoolSize /\ last # None /\ last[1].op = "acquire")
              => /\ last[1].ret = None
                 /\ pool = last[1].before

C14_Witness ==
    /\ PoolSize >= 2
    /\ NoRelease
    /\ Len(trace) = PoolSize + 1
    /\ trace[PoolSize + 1].idx = None
    /\ last[1].op = "acquire"

\* The index of the most recent release among trace[1..j] that no later
\* acquire has taken back, d later acquires being still unmatched; on
\* reaching the fresh pool, the next index of N-1, N-2, ..., if any is left.
RECURSIVE MostRecentRelease(_, _)
MostRecentRelease(j, d) ==
    IF j = 0
    THEN IF d < PoolSize THEN Some(PoolSize - 1 - d) ELSE None
    ELSE IF trace[j].op = "release"
    THEN IF trace[j].idx[1] >= PoolSize THEN MostRecentRelease(j - 1, d)
         ELSE IF d = 0 THEN trace[j].idx
         ELSE MostRecentRelease(j - 1, d - 1)
    ELSE IF trace[j].idx = None THEN MostRecentRelease(j - 1, d)
    ELSE MostRecentRelease(j - 1, d + 1)

\* C15: after any sequence of acquire and release calls, acquire returns the
\* index given to the most recent release (of a buffer of the pool) that has
\* not been taken back since; on a fresh pool of N buffers the acquisitions
\* return N-1, N-2, ... in that order.
C15_Lifo ==
    /\ \A k \in 1..Len(trace) :
          trace[k].op = "acquire" => trace[k].idx = MostRecentRelease(k - 1, 0)
    /\ NoRelease =>
          \A i \in 1..Len(trace) :
              i <= PoolSize => trace[i].idx = Some(PoolSize - i)

C15_Witness ==
    /\ Len(trace) = 4
    /\ trace[1].op = "acquire" /\ trace[2].op = "acquire"
    /\ trace[3].op = "release" /\ trace[3].idx = trace[1].idx
    /\ trace[4].op = "acquire" /\ trace[4].idx = trace[1].idx
    /\ trace[1].idx # None

\* The elements of a sequence are pairwise different.
NoDuplicates(s) == \A i, j \in 1..Len(s) : i # j => s[i] # s[j]

\* C16: after a release of an index that is already free, the free set
\* still holds each index at most once and no more than N indices.
C16_DoubleReleaseHarmless ==
    (/\ last # None
     /\ last[1].op = "release"
     /\ \E i \in 1..Len(last[1].before.available) :
            last[1].before.available[i] = last[1].arg[1])
        => /\ NoDuplicates(pool.available)
           /\ Len(pool.available) <= PoolSize

\* C18: get(index) leaves the free set, the buffers and the ownership as
\* they were, and returns the buffer for index < N and None otherwise,
\* whether the buffer is free or acquired.
C18_GetIsPure ==
    (last # None /\ last[1].op = "get") =>
        /\ pool = last[1].before
        /\ owned = last[1].owned
        /\ last[1].ret =
              IF last[1].arg[1] < PoolSize
              THEN Some(last[1].before.buffers[last[1].arg[1] + 1])
              ELSE None

C18_Witness ==
    /\ last # None
    /\ last[1].op = "get"
    /\ last[1].arg[1] \in owned[1]
    /\ last[1].ret = Some(pool.buffers[last[1].arg[1] + 1])

\* The indices held by some task.
Held(o) == UNION {o[t] : t \in DOMAIN o}

\* C17: under every interleaving of the tasks' acquire and release calls,
\* acquire never returns an index that a holder has acquired and not yet
\* released, so no index has two owners at the same time.
C17_ExclusiveOwnership ==
    /\ \A t, u \in DOMAIN owned : t # u => owned[t] \cap owned[u] = {}
    /\ (last # None /\ last[1].op = "acquire" /\ last[1].ret # None)
          => last[1].ret[1].idx \notin Held(last[1].owned)
    /\ \A i \in 1..Len(pool.available) : pool.available[i] \notin Held(owned)

(***************************************************************************)
(* Properties of the startup.                                              *)
(***************************************************************************)
\* Loading and validating the configuration succeed in this environment.
ConfigurationValid ==
    /\ load_from_env(env).ok
    /\ MoverConfig_validate(load_from_env(env).value).ok

\* main has touched the socket: removed the old file, bound, or accepted.
SocketTouched ==
    \/ main.removed
    \/ main.bound
    \/ main.accepted > 0
    \/ main.accept_errors > 0

\* C13: if loading or validating the configuration fails, main returns the
\* error and never removes the old socket file, never binds and never
\* accepts; in every run the socket is bound only after validate succeeded.
C13_FailFast ==
    /\ (~ConfigurationValid /\ main.pc # "start") =>
          /\ main.pc = "exited"
          /\ main.result # None
          /\ ~main.result[1].ok
          /\ ~SocketTouched
    /\ SocketTouched =>
          /\ main.config # None
          /\ MoverConfig_validate(main.config[1]).ok
          /\ main.config[1] = load_from_env(env).value

C13_Witness ==
    /\ ~load_from_env(env).ok
    /\ main.pc = "exited"
    /\ ~main.removed /\ ~main.bound

(***************************************************************************)
(* Properties of a connection.                                             *)
(***************************************************************************)
\* s begins with p.
IsPrefix(p, s) == Len(p) <= Len(s) /\ SubSeq(s, 1, Len(p)) = p

\* bytes is one whole response frame and nothing more.
IsOneResponseFrame(bytes) ==
    /\ MoverResponse_read_from(bytes).ok
    /\ MoverResponse_write_to(MoverResponse_read_from(bytes).value) = bytes

\* C19: a connection performs at most one read of at most 8192 bytes,
\* decodes at most one request and writes at most one response frame; the
\* bytes after the first complete frame are not decoded as a second request
\* and not answered.
C19_SingleShot ==
    /\ conn.reads <= 1 /\ conn.decodes <= 1 /\ conn.writes <= 1
    /\ conn.n # None =>
          /\ conn.n[1] <= 8192
          /\ conn.buffer = SubSeq(conn.sent, 1, conn.n[1])
    /\ conn.req # None => IsPrefix(MoverRequest_write_to(conn.req[1]), conn.sent)
    /\ conn.received # <<>> => IsOneResponseFrame(conn.received)
    /\ conn.state = "Closed" => conn.result # None

C19_Witness ==
    /\ conn.state = "Closed"
    /\ conn.req # None
    /\ conn.buffer = conn.sent
    /\ Len(conn.sent) > Len(MoverRequest_write_to(conn.req[1]))
    /\ MoverRequest_read_from(
          SubSeq(conn.sent, Len(MoverRequest_write_to(conn.req[1])) + 1,
                 Len(conn.sent))).ok
    /\ conn.writes = 1
    /\ IsOneResponseFrame(conn.received)

\* C20: once a request has been decoded, the connection is not closed
\* before the response write; whatever the operation code, the handler's
\* outcome is a MoverResponse with status Error, which is encoded and
\* written exactly once, and that frame is what the client receives.
C20_OneResponsePerRequest ==
    conn.req # None =>
        /\ conn.state \in {"Decoded", "HandlerDispatch", "ResponseEncoded", "Closed"}
        /\ conn.response # None =>
              /\ conn.response[1].status = "Error"
              /\ conn.response[1].data # <<>>
        /\ conn.state = "Closed" =>
              /\ conn.writes = 1
              /\ conn.response # None
              /\ conn.response_buf = MoverResponse_write_to(conn.response[1])
              /\ IF conn.result[1].ok
                 THEN /\ conn.received = conn.response_buf
                      /\ MoverResponse_read_from(conn.received)
                            = Ok(conn.response[1])
                 ELSE conn.result[1].err[1] = "Failed to send response"
        /\ conn.state # "Closed" => conn.writes = 0 /\ conn.received = <<>>

C20_Witness ==
    /\ conn.state = "Closed"
    /\ conn.req # None
    /\ conn.req[1].op = "Batch"
    /\ conn.result[1].ok
    /\ MoverResponse_read_from(conn.received).ok
    /\ MoverResponse_read_from(conn.received).value.status = "Error"

\* C21: if reading the request fails or the bytes read do not decode to a
\* request, the connection is closed without any handler having been called
\* and without a byte of response written.
C21_MalformedGetsSilence ==
    /\ (conn.reads = 1 /\ conn.n = None) =>
          /\ conn.state = "Closed"
          /\ conn.decodes = 0
    /\ (conn.decodes = 1 /\ conn.req = None) => conn.state = "Closed"
    /\ (conn.state = "Closed" /\ conn.req = None) =>
          /\ ~conn.result[1].ok
          /\ conn.handlers = 0
          /\ conn.response = None
          /\ conn.writes = 0
          /\ conn.received = <<>>
    /\ (conn.decodes = 1 /\
        (conn.buffer = <<>> \/ conn.buffer[1] \notin 1..5
           \/ Len(conn.buffer) < 23)) => conn.req = None

C21_Witness ==
    /\ conn.state = "Closed"
    /\ conn.decodes = 1
    /\ Len(conn.buffer) >= 23
    /\ conn.buffer[1] = 9
    /\ conn.received = <<>>

\* The bytes of "not implemented".
NotImplementedBytes ==
    <<110, 111, 116, 32, 105, 109, 112, 108, 101, 109, 101, 110, 116, 101, 100>>

\* The bytes of the name each operation's message begins with.
OperationNameBytes(op) ==
    CASE op = "Read" -> <<82, 69, 65, 68>>
      [] op = "Write" -> <<87, 82, 73, 84, 69>>
      [] op = "SendZC" -> <<83, 69, 78, 68, 95, 90, 67>>
      [] op = "Recv" -> <<82, 69, 67, 86>>
      [] op = "Batch" -> <<66, 65, 84, 67, 72>>

\* s contains part.
Contains(s, part) ==
    \E i \in 1..(Len(s) - Len(part) + 1) :
        SubSeq(s, i, i + Len(part) - 1) = part

\* C22: a decoded request of any of the five operation codes is answered
\* with status Error and a message containing "not implemented", never with
\* Ok or NotFound, and the operation code alone selects the handler.
C22_NotImplemented ==
    /\ conn.response # None =>
          /\ conn.req # None
          /\ conn.response[1].status = "Error"
          /\ Contains(conn.response[1].data, NotImplementedBytes)
          /\ IsPrefix(OperationNameBytes(conn.req[1].op) \o <<32>>,
                      conn.response[1].data)
    /\ conn.received # <<>> =>
          /\ MoverResponse_read_from(conn.received).ok
          /\ MoverResponse_read_from(conn.received).value.status = "Error"
          /\ Contains(MoverResponse_read_from(conn.received).value.data,
                      NotImplementedBytes)

C22_Witness ==
    /\ conn.req # None
    /\ conn.req[1].op = "SendZC"
    /\ conn.received # <<>>
    /\ MoverResponse_read_from(conn.received).value.status = "Error"

\* The states of a connection that answers, in order.
SuccessPath ==
    <<"Accepted", "RequestRead", "Decoded", "HandlerDispatch",
      "ResponseEncoded", "Sent", "Closed">>

\* C26: a connection goes through Accepted, RequestRead, Decoded,
\* HandlerDispatch, ResponseEncoded, Sent, Closed in that order, visiting no
\* state twice and skipping none; the only other exit is to Closed with an
\* error, from the read, the decode or the response write; no handler runs
\* before the decode and no response byte is written before the handler.
C26_FixedOrder ==
    /\ \/ IsPrefix(conn.visited, SuccessPath)
       \/ /\ conn.state = "Closed"
          /\ ~conn.result[1].ok
          /\ \E k \in {1, 2, 5} :
                conn.visited = SubSeq(SuccessPath, 1, k) \o <<"Closed">>
    /\ conn.state = conn.visited[Len(conn.visited)]
    /\ (conn.state = "Closed" /\ conn.result[1].ok) => conn.visited = SuccessPath
    /\ conn.handlers > 0 => conn.req # None /\ conn.decodes = 1
    /\ conn.writes > 0 => conn.handlers = 1 /\ conn.response # None
    /\ conn.received # <<>> => conn.handlers = 1

C26_Witness ==
    /\ conn.visited = SuccessPath
    /\ conn.result[1].ok

\* The request whose frame is larger than the read buffer.
LargeRequest ==
    [op |-> "Write", id |-> <<97>>, offset |-> 0, length |-> 8192,
     data |-> [i \in 1..8192 |-> 0]]

\* C28: when the single read returns fewer bytes than the request's frame
\* (the frame is longer than 8192 bytes, or it arrives in segments), the
\* decode fails, no further read is made and the connection closes without
\* a response; a request is answered only if the read returned all of it.
C28_ShortReadUnanswered ==
    /\ \A r \in ConnRequests \cup {LargeRequest} :
          (/\ conn.n # None
           /\ IsPrefix(MoverRequest_write_to(r), conn.sent)
           /\ conn.n[1] < Len(MoverRequest_write_to(r)))
             => /\ conn.reads = 1
                /\ conn.req = None
                /\ conn.received = <<>>
                /\ conn.state \in {"RequestRead", "Closed"}
                /\ conn.state = "Closed" => ~conn.result[1].ok /\ conn.writes = 0
    /\ conn.received # <<>> =>
          /\ conn.n[1] >= Len(MoverRequest_write_to(conn.req[1]))
          /\ IsPrefix(MoverRequest_write_to(conn.req[1]), conn.buffer)

C28_Witness ==
    /\ conn.state = "Closed"
    /\ Len(conn.sent) > 8192
    /\ conn.n = Some(8192)
    /\ conn.decodes = 1
    /\ conn.received = <<>>

(***************************************************************************)
(* Properties of load_from_env.                                            *)
(***************************************************************************)
\* s is a decimal integer without a minus sign, at most 2^64 - 1.
IsU64Literal(s) ==
    /\ IsDecimalInteger(s)
    /\ Head(s) # "-"
    /\ LET sig == SignificantDigits(s) IN
       \/ Len(sig) < 20
       \/ Len(sig) = 20 /\
          ~digits_greater(sig, <<1, 8, 4, 4, 6, 7, 4, 4, 0, 7, 3, 7, 0, 9,
                                 5, 5, 1, 6, 1, 5>>)

\* The numeric settings: variable, field, default, and whether a value is a
\* number of the field's type.
NumericSettings ==
    {[key |-> "IOURING_ENTRIES", field |-> "iouring_entries",
      default |-> 4096, wide |-> FALSE],
     [key |-> "MOVER_BUFFER_COUNT", field |-> "buffer_count",
      default |-> 256, wide |-> TRUE],
     [key |-> "MOVER_BUFFER_SIZE", field |-> "buffer_size",
      default |-> 4096, wide |-> TRUE],
     [key |-> "MOVER_BATCH_TIMEOUT_MS", field |-> "batch_timeout_ms",
      default |-> 10, wide |-> TRUE],
     [key |-> "MOVER_MAX_CONNECTIONS", field |-> "max_connections",
      default |-> 32, wide |-> TRUE]}

Parses(setting, value) ==
    IF setting.wide THEN IsU64Literal(value) ELSE IsU32Literal(value)

\* The setting is set to something that is no number of its field's type.
IsMalformed(setting) ==
    env[setting.key] # None /\ ~Parses(setting, env[setting.key][1])

\* The environment with the malformed numeric settings unset.
WithoutMalformed ==
    [k \in EnvKeys |->
        IF \E setting \in NumericSettings : setting.key = k /\ IsMalformed(setting)
        THEN None ELSE env[k]]

\* No segment of the flags setting is an unknown name.
FlagsKnown ==
    \/ IsU32Literal(Setting)
    \/ \A seg \in SettingSegments :
          \/ Denotes(seg, <<>>)
          \/ \E name \in SixNames : Denotes(seg, name)

\* C29: load_from_env never fails because of a numeric or boolean setting:
\* a value that is no non-negative integer of the field's type is replaced
\* by the setting's default, exactly as if the variable were unset, and
\* validate then accepts the field; only an unknown name in IOURING_FLAGS
\* makes loading fail.
C29_MalformedNumberIsDefault ==
    load_result # None =>
        /\ load_result[1].ok <=> FlagsKnown
        /\ load_result[1] = load_from_env(WithoutMalformed)
        /\ load_result[1].ok =>
              \A setting \in NumericSettings :
                  ToDigits(load_result[1].value[setting.field]) =
                      IF env[setting.key] = None \/ IsMalformed(setting)
                      THEN ToDigits(setting.default)
                      ELSE SignificantDigits(env[setting.key][1])
        /\ (/\ validated # None
            /\ \A setting \in NumericSettings :
                  env[setting.key] = None \/ IsMalformed(setting))
              => validated[1].ok

C29_Witness ==
    /\ env["IOURING_ENTRIES"] = Some(<<"a", "b", "c">>)
    /\ env["MOVER_BUFFER_SIZE"] = Some(<<"-", "5">>)
    /\ env["MOVER_BATCH_TIMEOUT_MS"] # None
    /\ IsMalformed([key |-> "MOVER_BATCH_TIMEOUT_MS", wide |-> TRUE])
    /\ env["MOVER_BUFFER_COUNT"] = None
    /\ env["MOVER_MAX_CONNECTIONS"] = None
    /\ load_result # None
    /\ load_result[1].ok
    /\ load_result[1].value.iouring_entries = 4096
    /\ load_result[1].value.buffer_size = 4096
    /\ validated # None
    /\ validated[1].ok

(***************************************************************************)
(* Pool accounting.                                                        *)
(***************************************************************************)
\* The indices acquired and not released after the first k calls.
RECURSIVE AcquiredAfter(_)
AcquiredAfter(k) ==
    IF k = 0 THEN {}
    ELSE IF trace[k].op = "acquire"
    THEN IF trace[k].idx = None THEN AcquiredAfter(k - 1)
         ELSE AcquiredAfter(k - 1) \cup {trace[k].idx[1]}
    ELSE AcquiredAfter(k - 1) \ {trace[k].idx[1]}

\* Every release so far named an index that was acquired at the time, or
\* an index that is none of the pool's.
ReleasesWellFormed ==
    \A k \in 1..Len(trace) :
        trace[k].op = "release" =>
            \/ trace[k].idx[1] \in AcquiredAfter(k - 1)
            \/ trace[k].idx[1] >= PoolSize

FreeIndices == {pool.available[i] : i \in 1..Len(pool.available)}

\* C30: after any sequence of acquire and release calls in which every
\* release names an index that is acquired, the free list holds no index
\* twice, the free and the acquired indices partition 0..N-1, the number
\* and size of the buffers are as created, and a release of an index >= N
\* leaves the pool unchanged.
C30_PoolAccounting ==
    ReleasesWellFormed =>
        /\ NoDuplicates(pool.available)
        /\ FreeIndices \cap AcquiredAfter(Len(trace)) = {}
        /\ FreeIndices \cup AcquiredAfter(Len(trace)) = 0..(PoolSize - 1)
        /\ Len(pool.available) + Cardinality(AcquiredAfter(Len(trace)))
              = PoolSize
        /\ last # None =>
              /\ pool.buffers = last[1].before.buffers
              /\ (last[1].op = "release" /\ last[1].arg[1] >= PoolSize)
                    => pool = last[1].before

C30_Witness ==
    /\ ReleasesWellFormed
    /\ PoolSize >= 2
    /\ last # None
    /\ last[1].op = "release"
    /\ last[1].arg[1] >= PoolSize
    /\ AcquiredAfter(Len(trace)) # {}
    /\ \E k \in 1..Len(trace) :
          trace[k].op = "release" /\ trace[k].idx[1] < PoolSize

(***************************************************************************)
(* Properties of batch_read.                                               *)
(***************************************************************************)
\* The buffer a read gives: its length is the read's, byte j is the file's
\* byte at offset + j where the file has one and zero elsewhere.
IsDataOf(buf, read) ==
    /\ file_content(read.path) # None
    /\ Len(buf) = read.length
    /\ \A j \in 1..Len(buf) :
          buf[j] = IF read.offset + j <= Len(file_content(read.path)[1])
                   THEN file_content(read.path)[1][read.offset + j]
                   ELSE 0

\* C23: when batch_read succeeds it returns exactly one result per read, in
\* the order of the reads, whatever order the spawned reads complete in.
C23_ResultsInInputOrder ==
    (batch.ret # None /\ batch.ret[1].ok) =>
        /\ Len(batch.ret[1].value) = Len(batch.reads)
        /\ \A i \in 1..Len(batch.reads) :
              IsDataOf(batch.ret[1].value[i], batch.reads[i])

C23_Witness ==
    /\ batch.ret # None
    /\ batch.ret[1].ok
    /\ Len(batch.reads) = 3
    /\ batch.completed = <<3, 1, 2>>
    /\ batch.reads[1] # batch.reads[3]
    /\ batch.ret[1].value[1] # batch.ret[1].value[3]

\* The read's task has failed.
HasFailed(i) ==
    /\ batch.tasks[i].state = "done"
    /\ ~batch.tasks[i].out[1].ok

\* C24: if any read of the batch fails, batch_read returns an error and no
\* result of any other read.
C24_FailFast ==
    /\ (batch.ret # None /\ \E i \in 1..Len(batch.tasks) : HasFailed(i)) =>
          /\ ~batch.ret[1].ok
          /\ DOMAIN batch.ret[1] = {"ok", "err"}
    /\ (batch.ret # None /\ batch.ret[1].ok) =>
          \A i \in 1..Len(batch.tasks) :
              batch.tasks[i].state = "done" /\ batch.tasks[i].out[1].ok
    /\ (batch.pc = "awaiting" /\ batch.next <= Len(batch.tasks)) =>
          \A i \in 1..(batch.next - 1) : ~HasFailed(i)

C24_Witness ==
    /\ Len(batch.tasks) = 3
    /\ batch.tasks[1].state = "done" /\ batch.tasks[1].out[1].ok
    /\ HasFailed(2)
    /\ batch.tasks[3].state = "done" /\ batch.tasks[3].out[1].ok
    /\ batch.ret # None
    /\ ~batch.ret[1].ok

\* C25: a batch in which some read has not completed when the batch
\* timeout has elapsed has failed as a whole.
C25_TimeoutBoundsBatch ==
    (/\ batch.pc # "called"
     /\ batch.elapsed > config[1].batch_timeout_ms
     /\ \E i \in 1..Len(batch.tasks) : batch.tasks[i].state # "done")
        => /\ batch.ret # None
           /\ ~batch.ret[1].ok

(***************************************************************************)
(* Properties of the accept loop and its connection tasks.                 *)
(***************************************************************************)
\* The steps a connection can take whatever else the server does.
AloneSteps(c) ==
    CASE c.state = "Accepted" ->
            {conn_read_ok(c, n) : n \in ServerReadCounts(c.sent)}
            \cup {conn_read_err(c)}
      [] c.state = "RequestRead" -> {conn_decode(c)}
      [] c.state = "Decoded" -> {conn_dispatch(c)}
      [] c.state = "HandlerDispatch" -> {conn_encode(c)}
      [] c.state = "ResponseEncoded" -> {conn_write_ok(c), conn_write_err(c)}
      [] OTHER -> {}

RECURSIVE AloneWithin(_, _)
AloneWithin(cs, steps) ==
    IF steps = 0 THEN cs
    ELSE AloneWithin(cs \cup UNION {AloneSteps(c) : c \in cs}, steps - 1)

\* Where a connection whose client wrote `sent` can be when it is the only
\* connection the server ever accepted: five steps take it to its end.
Alone(sent) == AloneWithin({new_connection(sent)}, 5)

\* The response to the request that `sent` carries.
ReplyTo(sent) ==
    MoverResponse_write_to(handle_request(MoverRequest_read_from(sent).value))

IsFailed(c) == c.state = "Closed" /\ ~c.result[1].ok

IsStalled(c) == c.state = "Accepted"

\* C27: once the socket is bound the accept loop never ends, and failures
\* are isolated: after accept errors, and with connections that failed in
\* read, decode or write or that wait for their request, the loop is still
\* accepting, every accepted connection has its task, each connection is
\* where it could be if it were the only one, and the response a connection
\* receives is the response to its own request.
C27_LoopSurvivesFailures ==
    main.bound =>
        /\ main.pc = "accepting"
        /\ main.result = None
        /\ Len(conns) = main.accepted
        /\ \A i \in 1..Len(conns) :
              /\ conns[i] \in Alone(conns[i].sent)
              /\ conns[i].received # <<>> =>
                    conns[i].received = ReplyTo(conns[i].sent)

C27_Witness ==
    /\ main.bound
    /\ main.accept_errors = 1
    /\ Len(conns) = 2
    /\ IsFailed(conns[1]) \/ IsStalled(conns[1])
    /\ conns[2].state = "Closed"
    /\ conns[2].result[1].ok
    /\ conns[2].received = ReplyTo(conns[2].sent)
    /\ MoverResponse_read_from(conns[2].received).ok

=============================================================================
